---- MODULE Spec2Model ----
(***************************************************************************)
(* Ready4Uni: the Chat Coordinator (services/chat_service.py), the Intent  *)
(* Router (core/router.py) and the Agent Orchestrator                      *)
(* (core/orchestrator.py) as one state machine.  One behaviour is one user *)
(* turn: either ChatService.process_message (which calls run_agent_loop    *)
(* with the default limits and the registry of wrapped tools) or a direct  *)
(* AgentOrchestrator(...).run with caller-chosen limits and registry.      *)
(* The LLM and the tools are the environment: every request returns one of *)
(* an enumerated set of answers or raises.                                 *)
(*                                                                         *)
(* Text is a tuple of one-character strings so that lower-casing and       *)
(* substring search are computed, not assumed.  Confidence values are in   *)
(* tenths (0.6 is 6).  Python's None is the string None.                   *)
(***************************************************************************)
EXTENDS Integers, Sequences, FiniteSets, TLC

VARIABLES
  entry,                \* which public entry point this turn uses
  user_message,         \* the user's text
  conversation_history, \* caller's history, ordered role/content records
  uploaded_files,       \* caller's file references
  session_id,           \* process_message's session_id (argument, then local)
  max_iterations,       \* AgentOrchestrator.max_iterations
  max_tool_calls,       \* AgentOrchestrator.max_tool_calls
  pc,                   \* position in process_message / run
  status,               \* AgentState.status
  intent,               \* AgentState.intent (IntentResult or NoIntent)
  tool_calls,           \* AgentState.tool_calls
  tool_results,         \* AgentState.tool_results
  plan,                 \* AgentState.plan
  final_response,       \* AgentState.final_response
  error_message,        \* AgentState.error_message
  iteration,            \* run's local loop counter
  pending,              \* tool calls of the current round not yet executed
  requested,            \* every tool call the LLM returned so far, in order
  llm_requests,         \* number of LLM requests issued, per kind
  tool_invocations,     \* number of registry callables invoked
  run_calls,            \* number of run_agent_loop / run invocations
  run_args,             \* arguments the orchestrator was invoked with
  response,             \* ChatResponse returned by process_message
  raised,               \* str(e) of the exception that reached run's handler
  tool_raises,          \* number of tool callables that raised
  call,                 \* a direct call of one function: its name and arguments
  ret,                  \* what that call produced: a value or an exception
  MAJORS_CACHE,         \* settings._MAJORS_CACHE
  majors_file           \* what data/majors.json holds

vars ==
  << entry, user_message, conversation_history, uploaded_files, session_id,
     max_iterations, max_tool_calls, pc, status, intent, tool_calls,
     tool_results, plan, final_response, error_message, iteration, pending,
     requested, llm_requests, tool_invocations, run_calls, run_args,
     response, raised, tool_raises, call, ret, MAJORS_CACHE, majors_file >>

None == "None"

\* an empty dict
EmptyDict ==
  [k \in {} |-> None]

----------------------------------------------------------------------------
(* Text                                                                    *)

CRISIS_KEYWORDS ==
  <<
    <<"h","u","r","t"," ","m","y","s","e","l","f">>,
    <<"k","i","l","l"," ","m","y","s","e","l","f">>,
    <<"s","u","i","c","i","d","e">>,
    <<"e","n","d"," ","m","y"," ","l","i","f","e">>,
    <<"w","a","n","t"," ","t","o"," ","d","i","e">>,
    <<"s","e","l","f"," ","h","a","r","m">>,
    <<"s","e","l","f","-","h","a","r","m">>,
    <<"c","u","t","t","i","n","g"," ","m","y","s","e","l","f">>,
    <<"d","o","n","'","t"," ","w","a","n","t"," ","t","o"," ","l","i","v","e">>,
    <<"n","o"," ","r","e","a","s","o","n"," ","t","o"," ","l","i","v","e">>,
    <<"b","e","t","t","e","r"," ","o","f","f"," ","d","e","a","d">>,
    <<"e","n","d"," ","i","t"," ","a","l","l">>,
    <<"n","o","t"," ","w","o","r","t","h"," ","l","i","v","i","n","g">>,
    <<"t","a","k","e"," ","m","y"," ","o","w","n"," ","l","i","f","e">>
  >>

TranscriptKeywords ==
  <<
    <<"t","r","a","n","s","c","r","i","p","t">>,
    <<"g","r","a","d","e","s">>,
    <<"r","e","p","o","r","t"," ","c","a","r","d">>,
    <<"m","y"," ","s","c","o","r","e","s">>
  >>

GreetingKeywords ==
  <<
    <<"h","e","l","l","o">>,
    <<"h","i">>,
    <<"h","e","y">>,
    <<"t","h","a","n","k","s">>,
    <<"t","h","a","n","k"," ","y","o","u">>
  >>

MajorKeywords ==
  <<
    <<"w","h","a","t"," ","m","a","j","o","r">>,
    <<"w","h","i","c","h"," ","m","a","j","o","r">>,
    <<"s","u","g","g","e","s","t"," ","m","a","j","o","r">>,
    <<"r","e","c","o","m","m","e","n","d"," ","m","a","j","o","r">>,
    <<"i"," ","l","i","k","e">>,
    <<"i"," ","l","o","v","e">>,
    <<"i","n","t","e","r","e","s","t","e","d"," ","i","n">>
  >>

ReadinessKeywords ==
  <<
    <<"a","m"," ","i"," ","r","e","a","d","y">>,
    <<"d","o"," ","i"," ","q","u","a","l","i","f","y">>,
    <<"m","e","e","t"," ","r","e","q","u","i","r","e","m","e","n","t","s">>,
    <<"g","o","o","d"," ","e","n","o","u","g","h">>
  >>

StudyKeywords ==
  <<
    <<"s","t","u","d","y">>,
    <<"l","e","a","r","n">>,
    <<"i","m","p","r","o","v","e">>,
    <<"c","o","u","r","s","e">>,
    <<"r","e","s","o","u","r","c","e">>,
    <<"h","o","w"," ","c","a","n"," ","i">>
  >>

CrisisMessages ==
  {
    <<"k","i","l","l"," ","m","y","s","e","l","f">>,
    <<"I"," ","w","a","n","t"," ","t","o"," ","K","I","L","L"," ","M","Y","S","E","L","F"," ","n","o","w">>,
    <<"t","h","o","u","g","h","t","s"," ","o","f"," ","S","e","l","f","-","H","a","r","m">>
  }

PlainMessages ==
  {
    <<"H","e","l","l","o"," ","t","h","e","r","e">>,
    <<"t","e","l","l"," ","m","e"," ","a","b","o","u","t"," ","p","h","y","s","i","c","s">>
  }

UpperChars ==
  <<"A","B","C","D","E","F","G","H","I","J","K","L","M","N","O","P","Q","R","S","T","U","V","W","X","Y","Z">>
LowerChars ==
  <<"a","b","c","d","e","f","g","h","i","j","k","l","m","n","o","p","q","r","s","t","u","v","w","x","y","z">>

\* str.lower() on one character
LowerChar(c) ==
  IF \E i \in 1..Len(UpperChars) : UpperChars[i] = c
  THEN LowerChars[CHOOSE i \in 1..Len(UpperChars) : UpperChars[i] = c]
  ELSE c

\* str.lower()
Lower(s) ==
  [i \in 1..Len(s) |-> LowerChar(s[i])]

\* Python's "sub in s"
Contains(s, sub) ==
  \E i \in 1..(Len(s) - Len(sub) + 1) : SubSeq(s, i, i + Len(sub) - 1) = sub

\* any(kw in text for kw in keywords)
AnyKeywordIn(keywords, text) ==
  \E k \in 1..Len(keywords) : Contains(text, keywords[k])

\* the same search without lower-casing the message first
DetectCrisisKeywordsCaseSensitive(message) ==
  AnyKeywordIn(CRISIS_KEYWORDS, message)

\* router._detect_crisis_keywords
DetectCrisisKeywords(message) ==
  AnyKeywordIn(CRISIS_KEYWORDS, Lower(message))

----------------------------------------------------------------------------
(* Intent Router (core/router.py)                                          *)

\* IntentType values
IntentTypeValues ==
  { "crisis_safety", "major_discovery", "transcript_analysis", "gap_analysis",
    "resource_request", "general_question", "greeting_or_chitchat", "unknown" }

\* confidence of the crisis result, in tenths
CrisisConfidence == 10
\* confidence used when the LLM result carries none, in tenths
DefaultConfidence == 9
\* confidence of the keyword fallback, in tenths
FallbackConfidence == 6
\* requires_clarification's low-confidence threshold, in tenths
LowConfidenceThreshold == 5

\* AgentState.intent before classification
NoIntent ==
  [intent |-> None]

RephraseQuestion ==
  "I'm not quite sure what you're looking for. Could you rephrase that?"
WhichMajorQuestion ==
  "Which major would you like me to check your readiness for?"
UploadTranscriptQuestion ==
  "I'll need to see your transcript to help with that. Could you upload your grades PDF?"

\* dict.get(key, default)
Get(d, key, default) ==
  IF key \in DOMAIN d THEN d[key] ELSE default

\* IntentType(intent_str), ValueError mapped to UNKNOWN
ParseIntent(intent_str) ==
  IF intent_str \in IntentTypeValues THEN intent_str ELSE "unknown"

\* the IntentResult returned when crisis keywords are detected
CrisisIntentResult ==
  [ intent |-> "crisis_safety",
    confidence |-> CrisisConfidence,
    context |-> EmptyDict,
    requires_transcript |-> FALSE,
    requires_major |-> FALSE ]

\* an interpretation that takes the model's transcript reference for an
\* uploaded file
ClassifyFromLLMTrustsReference(result, files) ==
  LET intent_v == ParseIntent(Get(result, "intent", "unknown"))
      entities == Get(result, "extracted_entities", EmptyDict)
      has_transcript ==
        \/ Len(files) > 0
        \/ Get(entities, "has_transcript_reference", FALSE)
  IN [ intent |-> intent_v,
       confidence |-> Get(result, "confidence", DefaultConfidence),
       context |-> [ major |-> Get(entities, "major_mentioned", None),
                     has_transcript |-> has_transcript ],
       requires_transcript |->
         \/ intent_v \in {"transcript_analysis", "gap_analysis"}
         \/ has_transcript,
       requires_major |->
         /\ intent_v = "gap_analysis"
         /\ Get(entities, "major_mentioned", None) # None ]

\* classify_intent's interpretation of a structured LLM result; None and []
\* for files are both "no file" at every use
ClassifyFromLLM(result, files) ==
  LET intent_v == ParseIntent(Get(result, "intent", "unknown"))
      entities == Get(result, "extracted_entities", EmptyDict)
      has_actual_transcript == Len(files) > 0
  IN [ intent |-> intent_v,
       confidence |-> Get(result, "confidence", DefaultConfidence),
       context |-> [ major |-> Get(entities, "major_mentioned", None),
                     has_transcript |-> has_actual_transcript ],
       requires_transcript |->
         \/ intent_v \in {"transcript_analysis", "gap_analysis"}
         \/ Get(entities, "has_transcript_reference", FALSE),
       requires_major |->
         /\ intent_v = "gap_analysis"
         /\ Get(entities, "major_mentioned", None) # None ]

\* a fallback that looks for a transcript before it looks for major-seeking
\* phrases
FallbackClassificationTranscriptFirst(message, files) ==
  LET message_lower == Lower(message)
      has_transcript ==
        \/ Len(files) > 0
        \/ AnyKeywordIn(TranscriptKeywords, message_lower)
      intent_v ==
        IF AnyKeywordIn(GreetingKeywords, message_lower)
          THEN "greeting_or_chitchat"
        ELSE IF AnyKeywordIn(ReadinessKeywords, message_lower) /\ has_transcript
          THEN "gap_analysis"
        ELSE IF has_transcript
          THEN "transcript_analysis"
        ELSE IF AnyKeywordIn(MajorKeywords, message_lower)
          THEN "major_discovery"
        ELSE IF AnyKeywordIn(StudyKeywords, message_lower)
          THEN "resource_request"
        ELSE "general_question"
  IN [ intent |-> intent_v,
       confidence |-> FallbackConfidence,
       context |-> [ has_transcript |-> Len(files) > 0 ],
       requires_transcript |-> has_transcript,
       requires_major |-> FALSE ]

\* router._fallback_classification
FallbackClassification(message, files) ==
  LET message_lower == Lower(message)
      has_transcript ==
        \/ Len(files) > 0
        \/ AnyKeywordIn(TranscriptKeywords, message_lower)
      intent_v ==
        IF AnyKeywordIn(GreetingKeywords, message_lower)
          THEN "greeting_or_chitchat"
        ELSE IF AnyKeywordIn(MajorKeywords, message_lower)
          THEN "major_discovery"
        ELSE IF AnyKeywordIn(ReadinessKeywords, message_lower) /\ has_transcript
          THEN "gap_analysis"
        ELSE IF has_transcript
          THEN "transcript_analysis"
        ELSE IF AnyKeywordIn(StudyKeywords, message_lower)
          THEN "resource_request"
        ELSE "general_question"
  IN [ intent |-> intent_v,
       confidence |-> FallbackConfidence,
       context |-> [ has_transcript |-> Len(files) > 0 ],
       requires_transcript |-> has_transcript,
       requires_major |-> FALSE ]

\* "not context.get(key)" for a text-or-None entry
ContextLacksText(ctx, key) ==
  Get(ctx, key, None) \in {None, ""}

\* "not context.get(key)" for a flag entry
ContextLacksFlag(ctx, key) ==
  IF key \in DOMAIN ctx THEN ~ctx[key] ELSE TRUE

\* requires_clarification without the question for the major
RequiresClarificationWithoutMajor(intent_result) ==
  IF intent_result.confidence < LowConfidenceThreshold
    THEN RephraseQuestion
  ELSE IF /\ intent_result.requires_transcript
          /\ ContextLacksFlag(intent_result.context, "has_transcript")
    THEN UploadTranscriptQuestion
  ELSE None

\* a check that asks for the major before it looks at the confidence
RequiresClarificationMajorFirst(intent_result) ==
  IF /\ intent_result.intent = "gap_analysis"
     /\ ContextLacksText(intent_result.context, "major")
    THEN WhichMajorQuestion
  ELSE IF intent_result.confidence < LowConfidenceThreshold
    THEN RephraseQuestion
  ELSE IF /\ intent_result.requires_transcript
          /\ ContextLacksFlag(intent_result.context, "has_transcript")
    THEN UploadTranscriptQuestion
  ELSE None

\* router.requires_clarification
RequiresClarification(intent_result) ==
  IF intent_result.confidence < LowConfidenceThreshold
    THEN RephraseQuestion
  ELSE IF /\ intent_result.intent = "gap_analysis"
          /\ ContextLacksText(intent_result.context, "major")
    THEN WhichMajorQuestion
  ELSE IF /\ intent_result.requires_transcript
          /\ ContextLacksFlag(intent_result.context, "has_transcript")
    THEN UploadTranscriptQuestion
  ELSE None

----------------------------------------------------------------------------
(* Inputs and environment                                                  *)

\* largest max_iterations a direct caller passes to AgentOrchestrator
MaxIterationsArg == 2
\* largest max_tool_calls a direct caller passes to AgentOrchestrator
MaxToolCallsArg == 2

\* run_agent_loop's and AgentOrchestrator's default max_iterations
DefaultMaxIterations == 5
\* AgentOrchestrator's default max_tool_calls
DefaultMaxToolCalls == 10

Messages ==
  CrisisMessages \cup PlainMessages

\* conversation histories: none, a well-formed one, one whose last turn has
\* no "role" key
Histories ==
  { <<>>,
    << [role |-> "user", content |-> "Tell me about Engineering"],
       [role |-> "assistant", content |-> "Engineering requires..."] >>,
    << [content |-> "orphan turn"] >> }

FileLists ==
  { <<>>, << [name |-> "transcript.pdf", path |-> "temp_uploads/transcript.pdf"] >> }

SessionIds ==
  { None, "test_session_123" }

\* str(uuid.uuid4())
GeneratedSessionId == "generated-uuid4"

\* tools.get_tool_registry: the registered tool names
ToolRegistryNames ==
  { "parse_transcript", "analyze_grades", "get_major_info",
    "get_major_suggestions", "search_major_database", "find_study_resources",
    "create_personalized_study_plan" }

\* the tool_calls lists call_llm_with_tools may return in one round (names
\* only; the arguments are passed through untouched)
ToolDecisions ==
  { <<>>,
    << "make_coffee", "analyze_grades" >>,
    << "parse_transcript", "make_coffee", "find_study_resources" >> }

\* str(result) of what a tool callable returns
ImprovePayload ==
  <<"{","'","r","e","c","o","m","m","e","n","d","a","t","i","o","n","'",":"," ","'","I","m","p","r","o","v","e"," ","y","o","u","r"," ","M","a","t","h","'","}">>

ReadyPayload ==
  <<"{","'","r","e","a","d","i","n","e","s","s","'",":"," ","'","r","e","a","d","y","'","}">>

ToolPayloads ==
  { ImprovePayload, ReadyPayload }

\* what each tool returns: analyze_grades a recommendation, the other tools
\* a result that mentions neither gaps nor improvement
ToolPayloadOf(tool_name) ==
  IF tool_name = "analyze_grades" THEN ImprovePayload ELSE ReadyPayload

\* str(e) of what a raw tool callable raises
ToolExceptionTexts ==
  { "unexpected keyword argument" }

\* str(e) of what an LLM request raises after its retries
LLMExceptionTexts ==
  { "429 quota exceeded", "No response candidates returned from Gemini API" }

\* texts call_llm returns
LLMTexts ==
  { "", "Here is what I found for you." }

LLMIntentStrings ==
  IntentTypeValues \cup { "smalltalk" }

LLMConfidences ==
  { 4, 9 }

LLMMajors ==
  { None, "Computer Science" }

\* results generate_structured_output returns
ClassifyResults ==
  { [ intent |-> s, confidence |-> c,
      extracted_entities |->
        [ major_mentioned |-> m, has_transcript_reference |-> b ] ] :
    s \in LLMIntentStrings, c \in LLMConfidences, m \in LLMMajors,
    b \in BOOLEAN }

\* a dataset load_majors returns: validated records in file order, each
\* with its requirements dict as [subject, required_grade] entries
Majors ==
  <<
     [ id |-> "computer_science",
       name |-> <<"C","o","m","p","u","t","e","r"," ","S","c","i","e","n","c","e">>,
       description |->
         <<"S","t","u","d","y"," ","o","f"," ","a","l","g","o","r","i","t","h","m","s"," ","a","n","d"," ","s","o","f","t","w","a","r","e">>,
       keywords |->
         << <<"P","r","o","g","r","a","m","m","i","n","g">>, <<"m","a","t","h">> >>,
       career_paths |->
         << <<"S","o","f","t","w","a","r","e"," ","E","n","g","i","n","e","e","r">> >>,
       requirements |->
         << [subject |-> <<"M","a","t","h">>, required_grade |-> 160],
            [subject |-> <<"P","h","y","s","i","c","s">>, required_grade |-> 140] >> ],
     [ id |-> "computer_engineering",
       name |-> <<"C","o","m","p","u","t","e","r"," ","E","n","g","i","n","e","e","r","i","n","g">>,
       name_pt |-> <<"E","n","g","e","n","h","a","r","i","a"," ","I","n","f","o","r","m","á","t","i","c","a">>,
       description |->
         <<"D","e","s","i","g","n"," ","o","f"," ","c","o","m","p","u","t","e","r"," ","h","a","r","d","w","a","r","e">>,
       keywords |->
         << <<"p","r","o","g","r","a","m","m","i","n","g">>, <<"h","a","r","d","w","a","r","e">> >>,
       career_paths |->
         << <<"H","a","r","d","w","a","r","e"," ","E","n","g","i","n","e","e","r">> >>,
       requirements |->
         << [subject |-> <<"M","a","t","h">>, required_grade |-> 150],
            [subject |-> <<"P","h","y","s","i","c","s">>, required_grade |-> 150],
            [subject |-> <<"P","o","r","t","u","g","u","e","s","e">>, required_grade |-> 120] >> ],
     [ id |-> "fine_arts",
       name |-> <<"F","i","n","e"," ","A","r","t","s">>,
       description |->
         <<"C","r","e","a","t","i","v","e"," ","a","r","t"," ","p","r","a","c","t","i","c","e">>,
       keywords |->
         << <<"a","r","t">>, <<"d","e","s","i","g","n">> >>,
       career_paths |->
         << <<"A","r","t","i","s","t">> >>,
       requirements |-> <<>> ],
     [ id |-> "engineering",
       name |-> <<"E","n","g","i","n","e","e","r","i","n","g">>,
       description |->
         <<"A","p","p","l","i","e","d"," ","m","a","t","h"," ","f","o","r"," ","i","n","d","u","s","t","r","y">>,
       keywords |->
         << <<"m","a","t","h">>, <<"d","e","s","i","g","n">> >>,
       career_paths |->
         << <<"E","n","g","i","n","e","e","r">> >>,
       requirements |->
         << [subject |-> <<"M","a","t","h">>, required_grade |-> 140] >> ]
  >>

\* a parsed JSON document: a list of objects, or an object
JsonList(items) ==
  [type |-> "list", items |-> items]

JsonObject ==
  [type |-> "dict"]

\* _MAJORS_CACHE = None
NoCache ==
  [type |-> "NoneType"]

\* majors.json as a readable file holding the document
JsonFile(document) ==
  [kind |-> "json", document |-> document]

settings ==
  << MAJORS_CACHE, majors_file >>

\* the dataset is on disk and was loaded at start-up
MajorsLoaded ==
  /\ MAJORS_CACHE = JsonList(Majors)
  /\ majors_file = JsonFile(JsonList(Majors))

----------------------------------------------------------------------------
(* Agent Orchestrator (core/orchestrator.py)                               *)

\* final_response set by run's exception handler
Apology ==
  "I encountered an error while processing your request. Could you try rephrasing or let me know if you need help?"

NoError ==
  [kind |-> "none"]

\* str(None), the result of a ToolResult that carries none
NoneText ==
  <<"N","o","n","e">>

\* f"Tool '{tool_name}' not found in registry"
ToolNotFoundError(tool_name) ==
  [kind |-> "not_found", tool |-> tool_name]

\* str(e) of an exception raised by the tool callable
ToolExceptionError(text) ==
  [kind |-> "exception", text |-> text]

\* the registry of a direct caller holds raw callables, which may raise;
\* ChatService's registry holds callables wrapped by retry_on_failure, which
\* return an error structure instead
RawRegistry ==
  entry = "run"

\* str(result) of the error structure that retry_on_failure returns when
\* every attempt of analyze_grades raised the TypeError of a bad argument
AnalyzeGradesFailure ==
  <<"{","'","s","u","c","c","e","s","s","'",":"," ","F","a","l","s","e",","," ","'","e","r","r","o","r","'",":"," ","'","u","n","e","x","p","e","c","t","e","d"," ","k","e","y","w","o","r","d"," ","a","r","g","u","m","e","n","t","'",","," ","'","t","o","o","l","'",":"," ","'","a","n","a","l","y","z","e","_","g","r","a","d","e","s","'","}">>

\* what invoking a registered callable can do: a raw callable returns its
\* payload or raises; a wrapped one returns its payload or, when the first
\* invocation of the turn is an analyze_grades call whose arguments are
\* rejected, the error structure
ToolOutcomes(tool_name) ==
  { [raises |-> FALSE, value |-> p] : p \in ToolPayloads \cap {ToolPayloadOf(tool_name)} }
    \cup
  IF RawRegistry
    THEN { [raises |-> TRUE, value |-> e] : e \in ToolExceptionTexts }
    ELSE { [raises |-> FALSE, value |-> AnalyzeGradesFailure] :
             t \in { n \in {tool_name} :
                       n = "analyze_grades" /\ tool_invocations = 0 } }

\* _execute_tool that records a raising callable as a success without result
ExecuteToolMasksFailure(tool_name, outcome) ==
  IF tool_name \notin ToolRegistryNames
    THEN [ tool_name |-> tool_name, success |-> FALSE, result |-> NoneText,
           error |-> ToolNotFoundError(tool_name) ]
  ELSE [ tool_name |-> tool_name, success |-> TRUE,
         result |-> IF outcome.raises THEN NoneText ELSE outcome.value,
         error |-> NoError ]

\* AgentOrchestrator._execute_tool: the ToolResult for a call, given what
\* the callable (if any is invoked) does
ExecuteTool(tool_name, outcome) ==
  IF tool_name \notin ToolRegistryNames
    THEN [ tool_name |-> tool_name, success |-> FALSE, result |-> NoneText,
           error |-> ToolNotFoundError(tool_name) ]
  ELSE IF outcome.raises
    THEN [ tool_name |-> tool_name, success |-> FALSE, result |-> NoneText,
           error |-> ToolExceptionError(outcome.value) ]
  ELSE [ tool_name |-> tool_name, success |-> TRUE, result |-> outcome.value,
         error |-> NoError ]

\* add_tool_result that logs the call in front of the earlier ones
AddToolCallInFront(calls, result) ==
  << [tool |-> result.tool_name, success |-> result.success] >> \o calls

\* AgentState.add_tool_result, the tool_calls half
AddToolCall(calls, result) ==
  Append(calls, [tool |-> result.tool_name, success |-> result.success])

\* AgentState.add_tool_result, the tool_results half
AddToolResult(results, result) ==
  Append(results, result)

\* AgentOrchestrator._create_plan
CreatePlan(intent_v) ==
  CASE intent_v = "major_discovery" ->
         "1. Extract user's interests and favorite subjects\n2. Call get_major_suggestions tool\n3. Present top 3-5 matching majors with explanations"
    [] intent_v = "transcript_analysis" ->
         "1. Call parse_transcript tool to extract grades\n2. Identify strongest and weakest subjects\n3. Provide overview of academic profile"
    [] intent_v = "gap_analysis" ->
         "1. Parse transcript if not already done\n2. Get major requirements using get_major_info\n3. Call analyze_grade_gaps to compare\n4. If gaps exist, call find_study_resources for weak subjects"
    [] intent_v = "resource_request" ->
         "1. Identify subject and specific topic from user message\n2. Call find_study_resources tool\n3. Present curated list with study plan"
    [] intent_v = "general_question" ->
         "1. Use general knowledge to answer\n2. Call get_major_info if specific major mentioned\n3. Provide comprehensive, cited answer"
    [] OTHER -> "Analyze message and respond appropriately"

\* classify_intent's history context: msg['role'] and msg['content'] of the
\* last 3 turns; a missing key raises KeyError
HistoryKeyError(history) ==
  LET recent == { i \in 1..Len(history) : i > Len(history) - 3 }
  IN IF \E i \in recent : "role" \notin DOMAIN history[i] THEN "'role'"
     ELSE IF \E i \in recent : "content" \notin DOMAIN history[i] THEN "'content'"
     ELSE None

\* the handler that shows the exception text to the user
ErrorFinalResponseLeaky(text) ==
  text

\* final_response chosen by run's exception handler for str(e) = text
ErrorFinalResponse(text) ==
  Apology

CountRequest(kind) ==
  [llm_requests EXCEPT ![kind] = @ + 1]

inputs ==
  << entry, user_message, conversation_history, uploaded_files,
     max_iterations, max_tool_calls >>

chat ==
  << session_id, run_calls, run_args, response >>

\* no function is called directly during a turn
NoCall ==
  [fn |-> None]

\* a direct call that has not finished
Pending ==
  [kind |-> "pending"]

unit ==
  << call, ret, settings >>

\* an exception reaches run's try block
Raise(text) ==
  raised' = text

\* the handler without "state.error_message = str(e)"
HandleExceptionWithoutText(text) ==
  /\ status' = "error"
  /\ UNCHANGED error_message
  /\ final_response' = ErrorFinalResponse(text)
  /\ pc' = "r_return"

\* run's "except Exception as e" handler followed by the return
HandleException(text) ==
  /\ status' = "error"
  /\ error_message' = text
  /\ final_response' = ErrorFinalResponse(text)
  /\ pc' = "r_return"

\* run, line 180: the run leaves IDLE
RunStart ==
  /\ pc = "r_init"
  /\ status' = "thinking"
  /\ pc' = "r_classify"
  /\ UNCHANGED << inputs, unit, chat, raised, tool_raises, intent, tool_calls,
                  tool_results, plan,
                  final_response, error_message, iteration, pending,
                  requested, llm_requests, tool_invocations >>

\* classify_intent up to the LLM request: the crisis check first, then the
\* history context, whose KeyError escapes classify_intent into run's handler
ClassifyBegin ==
  /\ pc = "r_classify"
  /\ IF DetectCrisisKeywords(user_message)
       THEN /\ intent' = CrisisIntentResult
            /\ pc' = "r_clarify"
            /\ UNCHANGED << status, final_response, error_message, raised >>
     ELSE IF HistoryKeyError(conversation_history) # None
       THEN /\ Raise(HistoryKeyError(conversation_history))
            /\ HandleException(HistoryKeyError(conversation_history))
            /\ UNCHANGED intent
     ELSE /\ pc' = "r_classify_llm"
          /\ UNCHANGED << status, intent, final_response, error_message,
                          raised >>
  /\ UNCHANGED << inputs, unit, chat, tool_raises, tool_calls, tool_results, plan,
                  iteration,
                  pending, requested, llm_requests, tool_invocations >>

\* classify_intent: generate_structured_output returns and is interpreted
ClassifyReturns ==
  /\ pc = "r_classify_llm"
  /\ \E result \in ClassifyResults :
       intent' = ClassifyFromLLM(result, uploaded_files)
  /\ llm_requests' = CountRequest("classify")
  /\ pc' = "r_clarify"
  /\ UNCHANGED << inputs, unit, chat, raised, tool_raises, status, tool_calls,
                  tool_results, plan,
                  final_response, error_message, iteration, pending,
                  requested, tool_invocations >>

\* classify_intent: the request or its interpretation raises; keyword fallback
ClassifyFails ==
  /\ pc = "r_classify_llm"
  /\ intent' = FallbackClassification(user_message, uploaded_files)
  /\ llm_requests' = CountRequest("classify")
  /\ pc' = "r_clarify"
  /\ UNCHANGED << inputs, unit, chat, raised, tool_raises, status, tool_calls,
                  tool_results, plan,
                  final_response, error_message, iteration, pending,
                  requested, tool_invocations >>

\* a run that plans even though a clarification question exists
ClarifyIgnored ==
  /\ pc = "r_clarify"
  /\ pc' = IF intent.intent = "greeting_or_chitchat"
             THEN "r_greeting_llm" ELSE "r_plan"
  /\ UNCHANGED << inputs, unit, chat, raised, tool_raises, status, intent,
                  tool_calls, tool_results,
                  plan, final_response, error_message, iteration, pending,
                  requested, llm_requests, tool_invocations >>

\* run, lines 189-203: clarification check, then the greeting branch
Clarify ==
  /\ pc = "r_clarify"
  /\ LET clarification_question == RequiresClarification(intent)
     IN IF clarification_question \notin {None, ""}
          THEN /\ final_response' = clarification_question
               /\ status' = "completed"
               /\ pc' = "r_return"
        ELSE IF intent.intent = "greeting_or_chitchat"
          THEN /\ pc' = "r_greeting_llm"
               /\ UNCHANGED << final_response, status >>
        ELSE /\ pc' = "r_plan"
             /\ UNCHANGED << final_response, status >>
  /\ UNCHANGED << inputs, unit, chat, raised, tool_raises, intent, tool_calls,
                  tool_results, plan,
                  error_message, iteration, pending, requested, llm_requests,
                  tool_invocations >>

\* the greeting reply that is given only after a plan was made
GreetingReturnsAfterPlanning ==
  /\ pc = "r_greeting_llm"
  /\ \E text \in LLMTexts : final_response' = text
  /\ llm_requests' = CountRequest("greeting")
  /\ plan' = CreatePlan(intent.intent)
  /\ status' = "completed"
  /\ pc' = "r_return"
  /\ UNCHANGED << inputs, unit, chat, raised, tool_raises, intent, tool_calls,
                  tool_results,
                  error_message, iteration, pending, requested,
                  tool_invocations >>

\* _handle_greeting: call_llm returns
GreetingReturns ==
  /\ pc = "r_greeting_llm"
  /\ \E text \in LLMTexts : final_response' = text
  /\ llm_requests' = CountRequest("greeting")
  /\ status' = "completed"
  /\ pc' = "r_return"
  /\ UNCHANGED << inputs, unit, chat, raised, tool_raises, intent, tool_calls,
                  tool_results, plan,
                  error_message, iteration, pending, requested,
                  tool_invocations >>

\* _handle_greeting: call_llm raises
GreetingRaises ==
  /\ pc = "r_greeting_llm"
  /\ \E text \in LLMExceptionTexts : Raise(text) /\ HandleException(text)
  /\ llm_requests' = CountRequest("greeting")
  /\ UNCHANGED << inputs, unit, chat, tool_raises, intent, tool_calls, tool_results,
                  plan,
                  iteration, pending, requested, tool_invocations >>

\* run, lines 205-212: the plan and the loop counter
Plan ==
  /\ pc = "r_plan"
  /\ status' = "thinking"
  /\ plan' = CreatePlan(intent.intent)
  /\ iteration' = 0
  /\ pc' = "r_loop"
  /\ UNCHANGED << inputs, unit, chat, raised, tool_raises, intent, tool_calls,
                  tool_results,
                  final_response, error_message, pending, requested,
                  llm_requests, tool_invocations >>

\* a loop head that ignores max_iterations
LoopHeadUnbounded ==
  /\ pc = "r_loop"
  /\ IF Len(tool_calls) >= max_tool_calls
       THEN /\ status' = "synthesizing"
            /\ pc' = "r_synthesis_llm"
       ELSE /\ status' = "calling_tool"
            /\ pc' = "r_decide_llm"
  /\ iteration' = iteration + 1
  /\ UNCHANGED << inputs, unit, chat, raised, tool_raises, intent, tool_calls,
                  tool_results, plan,
                  final_response, error_message, pending, requested,
                  llm_requests, tool_invocations >>

\* run, lines 213-221 and 246: the while test, the tool-call limit, and the
\* status set on entering a round or leaving the loop
LoopHead ==
  /\ pc = "r_loop"
  /\ IF iteration < max_iterations
       THEN /\ iteration' = iteration + 1
            /\ IF Len(tool_calls) >= max_tool_calls
                 THEN /\ status' = "synthesizing"
                      /\ pc' = "r_synthesis_llm"
                 ELSE /\ status' = "calling_tool"
                      /\ pc' = "r_decide_llm"
       ELSE /\ status' = "synthesizing"
            /\ pc' = "r_synthesis_llm"
            /\ UNCHANGED iteration
  /\ UNCHANGED << inputs, unit, chat, raised, tool_raises, intent, tool_calls,
                  tool_results, plan,
                  final_response, error_message, pending, requested,
                  llm_requests, tool_invocations >>

\* a decision step that reports SYNTHESIZING as soon as the LLM has answered
DecideReturnsSynthesizing ==
  /\ pc = "r_decide_llm"
  /\ \E decision \in ToolDecisions :
       /\ requested' = requested \o decision
       /\ status' = "synthesizing"
       /\ IF decision = <<>>
            THEN /\ pc' = "r_synthesis_llm"
                 /\ UNCHANGED pending
            ELSE /\ pending' = decision
                 /\ pc' = "r_execute"
  /\ llm_requests' = CountRequest("decide")
  /\ UNCHANGED << inputs, unit, chat, raised, tool_raises, intent, tool_calls,
                  tool_results, plan,
                  final_response, error_message, iteration,
                  tool_invocations >>

\* _decide_next_tool: call_llm_with_tools returns; no tool calls ends the loop
DecideReturns ==
  /\ pc = "r_decide_llm"
  /\ \E decision \in ToolDecisions :
       /\ requested' = requested \o decision
       /\ IF decision = <<>>
            THEN /\ status' = "synthesizing"
                 /\ pc' = "r_synthesis_llm"
                 /\ UNCHANGED pending
            ELSE /\ pending' = decision
                 /\ pc' = "r_execute"
                 /\ UNCHANGED status
  /\ llm_requests' = CountRequest("decide")
  /\ UNCHANGED << inputs, unit, chat, raised, tool_raises, intent, tool_calls,
                  tool_results, plan,
                  final_response, error_message, iteration,
                  tool_invocations >>

\* _decide_next_tool: call_llm_with_tools raises
DecideRaises ==
  /\ pc = "r_decide_llm"
  /\ \E text \in LLMExceptionTexts : Raise(text) /\ HandleException(text)
  /\ llm_requests' = CountRequest("decide")
  /\ UNCHANGED << inputs, unit, chat, tool_raises, intent, tool_calls, tool_results,
                  plan,
                  iteration, pending, requested, tool_invocations >>

\* run, lines 232-243: execute the next tool call of the round and log it
Execute ==
  /\ pc = "r_execute"
  /\ LET tool_name == Head(pending)
     IN \E outcome \in ToolOutcomes(tool_name) :
          LET tool_result == ExecuteTool(tool_name, outcome)
          IN /\ tool_results' = AddToolResult(tool_results, tool_result)
             /\ tool_calls' = AddToolCall(tool_calls, tool_result)
             /\ tool_invocations' =
                  IF tool_name \in ToolRegistryNames
                    THEN tool_invocations + 1 ELSE tool_invocations
             /\ tool_raises' =
                  IF tool_name \in ToolRegistryNames /\ outcome.raises
                    THEN tool_raises + 1 ELSE tool_raises
  /\ pending' = Tail(pending)
  /\ pc' = IF Tail(pending) = <<>> THEN "r_loop" ELSE "r_execute"
  /\ UNCHANGED << inputs, unit, chat, raised, status, intent, plan, final_response,
                  error_message, iteration, requested, llm_requests >>

\* _synthesize_response: call_llm returns
SynthesisReturns ==
  /\ pc = "r_synthesis_llm"
  /\ \E text \in LLMTexts : final_response' = text
  /\ llm_requests' = CountRequest("synthesis")
  /\ status' = "completed"
  /\ pc' = "r_return"
  /\ UNCHANGED << inputs, unit, chat, raised, tool_raises, intent, tool_calls,
                  tool_results, plan,
                  error_message, iteration, pending, requested,
                  tool_invocations >>

\* _synthesize_response: call_llm raises
SynthesisRaises ==
  /\ pc = "r_synthesis_llm"
  /\ \E text \in LLMExceptionTexts : Raise(text) /\ HandleException(text)
  /\ llm_requests' = CountRequest("synthesis")
  /\ UNCHANGED << inputs, unit, chat, tool_raises, intent, tool_calls, tool_results,
                  plan,
                  iteration, pending, requested, tool_invocations >>

----------------------------------------------------------------------------
(* Chat Coordinator (services/chat_service.py)                             *)

\* config.CRISIS_RESPONSE (opening paragraph; the helpline list follows)
CRISIS_RESPONSE ==
  "I'm really concerned about what you've shared. Your wellbeing matters more than any academic decision. [helplines]"

\* ChatService._get_error_message
ErrorMessage ==
  "I'm having trouble processing your request right now. This could be a temporary issue. [advice]"

TroubleMessage ==
  "I had trouble processing that. Could you try rephrasing?"

NoResponse ==
  [returned |-> FALSE]

NoRunArgs ==
  [called |-> FALSE]

GapWord ==
  <<"g","a","p">>

ImproveWord ==
  <<"i","m","p","r","o","v","e">>

\* _generate_suggestions searching the tool results as they are spelled
GenerateSuggestionsCaseSensitive(intent_result, results) ==
  LET has_gaps ==
        \E i \in 1..Len(results) :
          /\ results[i].success
          /\ \/ Contains(results[i].result, GapWord)
             \/ Contains(results[i].result, ImproveWord)
      suggestions ==
        CASE intent_result = NoIntent -> <<>>
          [] intent_result.intent = "major_discovery" ->
               << "Tell me more about one of these majors",
                  "Check if my grades meet the requirements",
                  "What careers can I pursue with this major?" >>
          [] intent_result.intent = "transcript_analysis" ->
               << "Which major should I consider based on my grades?",
                  "How can I improve my weakest subject?",
                  "Am I ready for Computer Science?" >>
          [] intent_result.intent = "gap_analysis" /\ has_gaps ->
               << "Show me resources to improve my weak subjects",
                  "What's a realistic timeline to close these gaps?",
                  "Are there alternative majors that fit my current grades?" >>
          [] intent_result.intent = "gap_analysis" /\ ~has_gaps ->
               << "What universities offer this major?",
                  "What should I focus on to maintain my readiness?",
                  "Tell me about career prospects in this field" >>
          [] intent_result.intent = "resource_request" ->
               << "Create a study schedule for me",
                  "Are there any free courses available?",
                  "What's the most important topic to focus on first?" >>
          [] intent_result.intent = "general_question" ->
               << "Help me find majors that match my interests",
                  "Analyze my transcript",
                  "What are the most popular majors?" >>
          [] OTHER -> <<>>
  IN SubSeq(suggestions, 1, IF Len(suggestions) < 3 THEN Len(suggestions) ELSE 3)

\* ChatService._generate_suggestions
GenerateSuggestions(intent_result, results) ==
  LET has_gaps ==
        \E i \in 1..Len(results) :
          /\ results[i].success
          /\ \/ Contains(Lower(results[i].result), GapWord)
             \/ Contains(Lower(results[i].result), ImproveWord)
      suggestions ==
        CASE intent_result = NoIntent -> <<>>
          [] intent_result.intent = "major_discovery" ->
               << "Tell me more about one of these majors",
                  "Check if my grades meet the requirements",
                  "What careers can I pursue with this major?" >>
          [] intent_result.intent = "transcript_analysis" ->
               << "Which major should I consider based on my grades?",
                  "How can I improve my weakest subject?",
                  "Am I ready for Computer Science?" >>
          [] intent_result.intent = "gap_analysis" /\ has_gaps ->
               << "Show me resources to improve my weak subjects",
                  "What's a realistic timeline to close these gaps?",
                  "Are there alternative majors that fit my current grades?" >>
          [] intent_result.intent = "gap_analysis" /\ ~has_gaps ->
               << "What universities offer this major?",
                  "What should I focus on to maintain my readiness?",
                  "Tell me about career prospects in this field" >>
          [] intent_result.intent = "resource_request" ->
               << "Create a study schedule for me",
                  "Are there any free courses available?",
                  "What's the most important topic to focus on first?" >>
          [] intent_result.intent = "general_question" ->
               << "Help me find majors that match my interests",
                  "Analyze my transcript",
                  "What are the most popular majors?" >>
          [] OTHER -> <<>>
  IN SubSeq(suggestions, 1, IF Len(suggestions) < 3 THEN Len(suggestions) ELSE 3)

\* the ChatResponse for a detected crisis: no suggestions, no agent_state
CrisisChatResponse(session) ==
  [ returned |-> TRUE,
    message |-> CRISIS_RESPONSE,
    success |-> TRUE,
    metadata |-> [intent |-> "crisis_safety", session_id |-> session] ]

\* the mapping without the "and agent_state.final_response" test
ChatResponseForAnyCompleted(st, fr, err, intent_result, results, session) ==
  IF st = "completed"
    THEN [ returned |-> TRUE,
           message |-> fr,
           success |-> TRUE,
           metadata |->
             [ intent |-> IF intent_result = NoIntent
                            THEN "unknown" ELSE intent_result.intent,
               tools_used |-> [i \in 1..Len(results) |-> results[i].tool_name],
               session_id |-> session ],
           suggestions |-> GenerateSuggestions(intent_result, results) ]
  ELSE IF st = "error"
    THEN [ returned |-> TRUE,
           message |-> IF fr \notin {None, ""} THEN fr ELSE ErrorMessage,
           success |-> FALSE,
           metadata |-> [error |-> err, session_id |-> session] ]
  ELSE [ returned |-> TRUE,
         message |-> TroubleMessage,
         success |-> FALSE,
         metadata |-> [status |-> st, session_id |-> session] ]

\* process_message, lines 120-159: the ChatResponse for the AgentState that
\* run_agent_loop returned
ChatResponseFor(st, fr, err, intent_result, results, session) ==
  IF st = "completed" /\ fr \notin {None, ""}
    THEN [ returned |-> TRUE,
           message |-> fr,
           success |-> TRUE,
           metadata |->
             [ intent |-> IF intent_result = NoIntent
                            THEN "unknown" ELSE intent_result.intent,
               tools_used |-> [i \in 1..Len(results) |-> results[i].tool_name],
               session_id |-> session ],
           suggestions |-> GenerateSuggestions(intent_result, results) ]
  ELSE IF st = "error"
    THEN [ returned |-> TRUE,
           message |-> IF fr \notin {None, ""} THEN fr ELSE ErrorMessage,
           success |-> FALSE,
           metadata |-> [error |-> err, session_id |-> session] ]
  ELSE [ returned |-> TRUE,
         message |-> TroubleMessage,
         success |-> FALSE,
         metadata |-> [status |-> st, session_id |-> session] ]

orchestration ==
  << status, intent, tool_calls, tool_results, plan, final_response,
     error_message, iteration, pending, requested, tool_invocations, raised,
     tool_raises >>

\* process_message, lines 89-108: session id, then the crisis check of the
\* quick classify_intent(user_message), which comes before its LLM request
ProcessMessageStart ==
  /\ pc = "pm_init"
  /\ session_id' = IF session_id \in {None, ""}
                     THEN GeneratedSessionId ELSE session_id
  /\ IF DetectCrisisKeywords(user_message)
       THEN /\ response' = CrisisChatResponse(session_id')
            /\ pc' = "done"
       ELSE /\ pc' = "pm_quick_llm"
            /\ UNCHANGED response
  /\ UNCHANGED << inputs, unit, orchestration, llm_requests, run_calls, run_args >>

\* the call of run_agent_loop that starts from an empty history
InvokeRunAgentLoopWithoutHistory ==
  /\ run_calls' = run_calls + 1
  /\ run_args' = [ called |-> TRUE,
                   conversation_history |-> <<>>,
                   uploaded_files |-> uploaded_files,
                   session_id |-> session_id ]
  /\ pc' = "r_init"
  /\ UNCHANGED response

\* run_agent_loop(...) as process_message calls it, lines 111-118
InvokeRunAgentLoop ==
  /\ run_calls' = run_calls + 1
  /\ run_args' = [ called |-> TRUE,
                   conversation_history |-> conversation_history,
                   uploaded_files |-> uploaded_files,
                   session_id |-> session_id ]
  /\ pc' = "r_init"
  /\ UNCHANGED response

\* the rest of process_message after quick_intent is known
AfterQuickIntent(quick_intent) ==
  IF quick_intent.intent = "crisis_safety"
    THEN /\ response' = CrisisChatResponse(session_id)
         /\ pc' = "done"
         /\ UNCHANGED << run_calls, run_args >>
    ELSE InvokeRunAgentLoop

\* the quick classify_intent(user_message): its LLM request returns
QuickClassifyReturns ==
  /\ pc = "pm_quick_llm"
  /\ \E result \in ClassifyResults :
       AfterQuickIntent(ClassifyFromLLM(result, <<>>))
  /\ llm_requests' = CountRequest("classify")
  /\ UNCHANGED << inputs, unit, orchestration, session_id >>

\* the quick classify_intent(user_message): its LLM request fails
QuickClassifyFails ==
  /\ pc = "pm_quick_llm"
  /\ AfterQuickIntent(FallbackClassification(user_message, <<>>))
  /\ llm_requests' = CountRequest("classify")
  /\ UNCHANGED << inputs, unit, orchestration, session_id >>

\* a return that always answers with the final_response of the run
ProcessMessageReturnsFinalResponse ==
  /\ pc = "r_return"
  /\ entry = "process_message"
  /\ response' = [ ChatResponseFor(status, final_response, error_message,
                                   intent, tool_results, session_id)
                     EXCEPT !.message = final_response ]
  /\ pc' = "done"
  /\ UNCHANGED << inputs, unit, orchestration, llm_requests, session_id, run_calls,
                  run_args >>

\* process_message, lines 120-159: run_agent_loop returned
ProcessMessageReturn ==
  /\ pc = "r_return"
  /\ entry = "process_message"
  /\ response' = ChatResponseFor(status, final_response, error_message,
                                 intent, tool_results, session_id)
  /\ pc' = "done"
  /\ UNCHANGED << inputs, unit, orchestration, llm_requests, session_id, run_calls,
                  run_args >>

----------------------------------------------------------------------------
(* The turn                                                                *)

\* a turn begins: the caller's message is one of messages, the files it
\* uploads are one of file_lists
TurnInit(messages, file_lists) ==
  /\ entry \in {"process_message", "run"}
  /\ user_message \in messages
  /\ conversation_history \in Histories
  /\ uploaded_files \in file_lists
  /\ session_id \in SessionIds
  /\ IF entry = "process_message"
       THEN /\ max_iterations = DefaultMaxIterations
            /\ max_tool_calls = DefaultMaxToolCalls
            /\ pc = "pm_init"
            /\ run_calls = 0
            /\ run_args = NoRunArgs
       ELSE /\ max_iterations \in 1..MaxIterationsArg
            /\ max_tool_calls \in 1..MaxToolCallsArg
            /\ pc = "r_init"
            /\ run_calls = 1
            /\ run_args = [ called |-> TRUE,
                            conversation_history |-> conversation_history,
                            uploaded_files |-> uploaded_files,
                            session_id |-> session_id ]
  /\ status = "idle"
  /\ intent = NoIntent
  /\ tool_calls = <<>>
  /\ tool_results = <<>>
  /\ plan = None
  /\ final_response = None
  /\ error_message = None
  /\ iteration = 0
  /\ pending = <<>>
  /\ requested = <<>>
  /\ llm_requests = [classify |-> 0, greeting |-> 0, decide |-> 0, synthesis |-> 0]
  /\ tool_invocations = 0
  /\ response = NoResponse
  /\ raised = None
  /\ tool_raises = 0
  /\ call = NoCall
  /\ ret = Pending
  /\ MajorsLoaded

Init ==
  TurnInit(Messages, FileLists)

Next ==
  \/ ProcessMessageStart
  \/ QuickClassifyReturns
  \/ QuickClassifyFails
  \/ RunStart
  \/ ClassifyBegin
  \/ ClassifyReturns
  \/ ClassifyFails
  \/ Clarify
  \/ GreetingReturns
  \/ GreetingRaises
  \/ Plan
  \/ LoopHead
  \/ DecideReturns
  \/ DecideRaises
  \/ Execute
  \/ SynthesisReturns
  \/ SynthesisRaises
  \/ ProcessMessageReturn

Spec ==
  Init /\ [][Next]_vars

\* every LLM request and tool invocation returns or raises, and the code
\* between them is sequential: a turn that can take a step takes one
FairSpec ==
  Spec /\ WF_vars(Next)

\* the readiness question of chat_service's follow-up suggestions
ReadinessQuestion ==
  <<"A","m"," ","I"," ","r","e","a","d","y"," ","f","o","r"," ","C","o","m","p","u","t","e","r"," ","S","c","i","e","n","c","e","?">>

\* the turn whose message is the readiness question, with no file uploaded
ReadinessInit ==
  TurnInit({ReadinessQuestion}, {<<>>})

ReadinessSpec ==
  ReadinessInit /\ [][Next]_vars

\* readiness questions that name a major: one that mentions the grades, one
\* that does not
QualifyQuestion ==
  <<"D","o"," ","I"," ","q","u","a","l","i","f","y"," ","f","o","r"," ","C","o","m","p","u","t","e","r"," ","S","c","i","e","n","c","e"," ","w","i","t","h"," ","m","y"," ","g","r","a","d","e","s","?">>

ReadyForFineArtsQuestion ==
  <<"A","m"," ","I"," ","r","e","a","d","y"," ","f","o","r"," ","F","i","n","e"," ","A","r","t","s","?">>

\* the turns whose message is one of them, with and without an uploaded file
ReadinessQuestionsInit ==
  TurnInit({QualifyQuestion, ReadyForFineArtsQuestion}, FileLists)

ReadinessQuestionsSpec ==
  ReadinessQuestionsInit /\ [][Next]_vars

TypeOK ==
  /\ pc \in { "pm_init", "pm_quick_llm", "r_init", "r_classify",
              "r_classify_llm", "r_clarify", "r_greeting_llm", "r_plan",
              "r_loop", "r_decide_llm", "r_execute", "r_synthesis_llm",
              "r_return", "done" }
  /\ status \in { "idle", "thinking", "calling_tool", "synthesizing",
                  "completed", "error" }

----------------------------------------------------------------------------
(* The Intent Router called directly (core/router.py)                      *)

\* the turn's variables while one function is called directly
NoTurn ==
  /\ entry = "direct"
  /\ user_message = <<>>
  /\ conversation_history = <<>>
  /\ uploaded_files = <<>>
  /\ session_id = None
  /\ max_iterations = DefaultMaxIterations
  /\ max_tool_calls = DefaultMaxToolCalls
  /\ status = "idle"
  /\ intent = NoIntent
  /\ tool_calls = <<>>
  /\ tool_results = <<>>
  /\ plan = None
  /\ final_response = None
  /\ error_message = None
  /\ iteration = 0
  /\ pending = <<>>
  /\ requested = <<>>
  /\ llm_requests = [classify |-> 0, greeting |-> 0, decide |-> 0, synthesis |-> 0]
  /\ tool_invocations = 0
  /\ run_calls = 0
  /\ run_args = NoRunArgs
  /\ response = NoResponse
  /\ raised = None
  /\ tool_raises = 0

turn ==
  << inputs, chat, orchestration, llm_requests >>

\* the function returns value
Return(value) ==
  [kind |-> "return", value |-> value]

\* the function raises an exception of class error
Raises(error, text) ==
  [kind |-> "raise", error |-> error, text |-> text]

\* confidences an IntentResult carries, in tenths
IntentConfidences ==
  { 0, 4, 5, 6, 9, 10 }

\* IntentResult.context: the default, the fallback's, classify_intent's
IntentContexts ==
  { EmptyDict } \cup
  { [has_transcript |-> b] : b \in BOOLEAN } \cup
  { [major |-> m, has_transcript |-> b] :
      m \in { None, "", "Computer Science" }, b \in BOOLEAN }

IntentResults ==
  [ intent : IntentTypeValues, confidence : IntentConfidences,
    context : IntentContexts, requires_transcript : BOOLEAN,
    requires_major : BOOLEAN ]

RouterMessages ==
  Messages \cup
  {
    <<"W","h","i","c","h"," ","m","a","j","o","r"," ","s","u","i","t","s"," ","m","e","?">>,
    <<"A","m"," ","I"," ","r","e","a","d","y"," ","f","o","r"," ","C","o","m","p","u","t","e","r"," ","S","c","i","e","n","c","e","?">>,
    <<"d","o"," ","I"," ","q","u","a","l","i","f","y"," ","w","i","t","h"," ","m","y"," ","g","r","a","d","e","s">>,
    <<"h","o","w"," ","c","a","n"," ","I"," ","i","m","p","r","o","v","e"," ","a","t"," ","m","a","t","h">>,
    <<"I"," ","l","o","v","e"," ","p","r","o","g","r","a","m","m","i","n","g">>,
    <<"I"," ","l","o","v","e"," ","m","a","t","h",","," ","a","m"," ","I"," ","r","e","a","d","y","?">>,
    <<"w","h","i","c","h"," ","m","a","j","o","r"," ","f","i","t","s"," ","m","e">>
  }

\* what generate_structured_output does for classify_intent: it raises, it
\* returns JSON that is not an object, or it returns a result object, here
\* also one without any key and one whose major is the empty string
RouterReplies ==
  { [kind |-> "raises"], [kind |-> "not_object"] } \cup
  { [kind |-> "result", result |-> r] :
      r \in ClassifyResults \cup
            { EmptyDict,
              [ intent |-> "gap_analysis", confidence |-> 9,
                extracted_entities |->
                  [ major_mentioned |-> "",
                    has_transcript_reference |-> FALSE ] ] } }

RouterCalls ==
  { [fn |-> "requires_clarification", intent_result |-> ir] :
      ir \in IntentResults } \cup
  { [fn |-> "classify_intent", user_message |-> m, conversation_history |-> h,
     uploaded_files |-> f, reply |-> r] :
      m \in RouterMessages, h \in Histories, f \in FileLists,
      r \in RouterReplies }

\* router.classify_intent
ClassifyIntent(message, history, files, reply) ==
  IF DetectCrisisKeywords(message)
    THEN Return(CrisisIntentResult)
  ELSE IF HistoryKeyError(history) # None
    THEN Raises("KeyError", HistoryKeyError(history))
  ELSE IF reply.kind = "result"
    THEN Return(ClassifyFromLLM(reply.result, files))
  ELSE Return(FallbackClassification(message, files))

CallRequiresClarification ==
  /\ call.fn = "requires_clarification"
  /\ ret = Pending
  /\ ret' = Return(RequiresClarification(call.intent_result))
  /\ UNCHANGED << turn, pc, call, settings >>

CallClassifyIntent ==
  /\ call.fn = "classify_intent"
  /\ ret = Pending
  /\ ret' = ClassifyIntent(call.user_message, call.conversation_history,
                               call.uploaded_files, call.reply)
  /\ UNCHANGED << turn, pc, call, settings >>

RouterInit ==
  /\ NoTurn
  /\ MajorsLoaded
  /\ pc = "direct"
  /\ call \in RouterCalls
  /\ ret = Pending

RouterNext ==
  \/ CallRequiresClarification
  \/ CallClassifyIntent

RouterSpec ==
  RouterInit /\ [][RouterNext]_vars

----------------------------------------------------------------------------
(* Subject names (utils/subject_mapper.py)                                 *)

\* a dict is the sequence of its entries in insertion order; a grades dict
\* has entries [subject, grade] with the grade in tenths of a point

\* Python's None where a grade is expected
NullGrade == -1000

SUBJECT_NAME_MAP ==
  <<
    [key |-> <<"m","a","t","e","m","a","t","i","c","a">>,
     value |-> <<"m","a","t","h">>],
    [key |-> <<"m","a","t","e","m","á","t","i","c","a">>,
     value |-> <<"m","a","t","h">>],
    [key |-> <<"m","a","t","e","m","á","t","i","c","a"," ","a">>,
     value |-> <<"m","a","t","h">>],
    [key |-> <<"m","a","t","e","m","a","t","i","c","a"," ","a">>,
     value |-> <<"m","a","t","h">>],
    [key |-> <<"m","a","t"," ","a">>,
     value |-> <<"m","a","t","h">>],
    [key |-> <<"f","i","s","i","c","a">>,
     value |-> <<"p","h","y","s","i","c","s">>],
    [key |-> <<"f","í","s","i","c","a">>,
     value |-> <<"p","h","y","s","i","c","s">>],
    [key |-> <<"f","i","s","i","c","a"," ","e"," ","q","u","i","m","i","c","a">>,
     value |-> <<"p","h","y","s","i","c","s">>],
    [key |-> <<"f","í","s","i","c","a"," ","e"," ","q","u","í","m","i","c","a">>,
     value |-> <<"p","h","y","s","i","c","s">>],
    [key |-> <<"f","í","s","i","c","a"," ","e"," ","q","u","í","m","i","c","a"," ","a">>,
     value |-> <<"p","h","y","s","i","c","s">>],
    [key |-> <<"f","i","s","i","c","a"," ","e"," ","q","u","i","m","i","c","a"," ","a">>,
     value |-> <<"p","h","y","s","i","c","s">>],
    [key |-> <<"f","i","s"," ","q","u","i","m"," ","a">>,
     value |-> <<"p","h","y","s","i","c","s">>],
    [key |-> <<"p","o","r","t","u","g","u","e","s">>,
     value |-> <<"p","o","r","t","u","g","u","e","s","e">>],
    [key |-> <<"p","o","r","t","u","g","u","ê","s">>,
     value |-> <<"p","o","r","t","u","g","u","e","s","e">>],
    [key |-> <<"p","o","r","t">>,
     value |-> <<"p","o","r","t","u","g","u","e","s","e">>],
    [key |-> <<"i","n","g","l","e","s">>,
     value |-> <<"e","n","g","l","i","s","h">>],
    [key |-> <<"i","n","g","l","ê","s">>,
     value |-> <<"e","n","g","l","i","s","h">>],
    [key |-> <<"i","n","g">>,
     value |-> <<"e","n","g","l","i","s","h">>],
    [key |-> <<"b","i","o","l","o","g","i","a">>,
     value |-> <<"b","i","o","l","o","g","y">>],
    [key |-> <<"g","e","o","l","o","g","i","a">>,
     value |-> <<"g","e","o","l","o","g","y">>],
    [key |-> <<"b","i","o","l","o","g","i","a"," ","e"," ","g","e","o","l","o","g","i","a">>,
     value |-> <<"b","i","o","l","o","g","y">>],
    [key |-> <<"b","i","o"," ","g","e","o">>,
     value |-> <<"b","i","o","l","o","g","y">>],
    [key |-> <<"h","i","s","t","o","r","i","a">>,
     value |-> <<"h","i","s","t","o","r","y">>],
    [key |-> <<"h","i","s","t","ó","r","i","a">>,
     value |-> <<"h","i","s","t","o","r","y">>],
    [key |-> <<"h","i","s","t","ó","r","i","a"," ","a">>,
     value |-> <<"h","i","s","t","o","r","y">>],
    [key |-> <<"h","i","s","t","o","r","i","a"," ","a">>,
     value |-> <<"h","i","s","t","o","r","y">>],
    [key |-> <<"g","e","o","g","r","a","f","i","a">>,
     value |-> <<"g","e","o","g","r","a","p","h","y">>],
    [key |-> <<"g","e","o","g","r","a","f","i","a"," ","a">>,
     value |-> <<"g","e","o","g","r","a","p","h","y">>],
    [key |-> <<"f","i","l","o","s","o","f","i","a">>,
     value |-> <<"p","h","i","l","o","s","o","p","h","y">>],
    [key |-> <<"f","i","l","o","s">>,
     value |-> <<"p","h","i","l","o","s","o","p","h","y">>],
    [key |-> <<"e","c","o","n","o","m","i","a">>,
     value |-> <<"e","c","o","n","o","m","i","c","s">>],
    [key |-> <<"e","c","o","n","o","m","i","a"," ","a">>,
     value |-> <<"e","c","o","n","o","m","i","c","s">>],
    [key |-> <<"q","u","i","m","i","c","a">>,
     value |-> <<"c","h","e","m","i","s","t","r","y">>],
    [key |-> <<"q","u","í","m","i","c","a">>,
     value |-> <<"c","h","e","m","i","s","t","r","y">>]
  >>

RECURSIVE StripLeft(_)
StripLeft(s) ==
  IF s # <<>> /\ Head(s) = " " THEN StripLeft(Tail(s)) ELSE s

RECURSIVE StripRight(_)
StripRight(s) ==
  IF s # <<>> /\ s[Len(s)] = " "
    THEN StripRight(SubSeq(s, 1, Len(s) - 1)) ELSE s

\* str.strip() for blanks
Strip(s) ==
  StripRight(StripLeft(s))

\* subject_mapper.normalize_subject_name
NormalizeSubjectName(subject) ==
  LET subject_lower == Strip(Lower(subject))
      found == { k \in 1..Len(SUBJECT_NAME_MAP) :
                   SUBJECT_NAME_MAP[k].key = subject_lower }
  IN IF found # {}
       THEN SUBJECT_NAME_MAP[CHOOSE k \in found : TRUE].value
       ELSE subject

\* a lookup that knows the exact key only
FindMatchingGradeExactKey(grades, target_subject) ==
  LET exact == { i \in 1..Len(grades) : grades[i].subject = target_subject }
  IN IF exact # {} THEN grades[CHOOSE i \in exact : TRUE].grade
     ELSE NullGrade

\* subject_mapper.find_matching_grade
FindMatchingGrade(grades, target_subject) ==
  LET target_norm == NormalizeSubjectName(Lower(target_subject))
      hits == { i \in 1..Len(grades) :
                  NormalizeSubjectName(Lower(grades[i].subject)) = target_norm }
      exact == { i \in 1..Len(grades) : grades[i].subject = target_subject }
  IN IF hits # {}
       THEN grades[CHOOSE i \in hits : \A j \in hits : i <= j].grade
     ELSE IF exact # {}
       THEN grades[CHOOSE i \in exact : TRUE].grade
     ELSE NullGrade

----------------------------------------------------------------------------
(* Transcript Service (services/transcript_service.py)                     *)

\* settings.PASSING_GRADE, in tenths
PASSING_GRADE == 100

\* settings.MAX_GRADE, in tenths
MAX_GRADE == 200

\* the grade from which a subject counts as a strength, in tenths
StrengthGrade == 140

\* gpa thresholds of overall_quality, in tenths
ExcellentGpa == 170

GoodGpa == 150

AdequateGpa == 120

\* a validation that accepts every number
ValidateGradeAny(grade) ==
  grade = grade

\* settings.validate_grade
ValidateGrade(grade) ==
  0 <= grade /\ grade <= MAX_GRADE

\* position of entry i when the entries are sorted by grade, highest first,
\* equal grades in their original order (sorted(..., reverse=True) is stable)
RankByGrade(entries, i) ==
  1 + Cardinality({ j \in 1..Len(entries) :
                      \/ entries[j].grade > entries[i].grade
                      \/ entries[j].grade = entries[i].grade /\ j < i })

SortedByGrade(entries) ==
  [ p \in 1..Len(entries) |->
      entries[CHOOSE i \in 1..Len(entries) : RankByGrade(entries, i) = p] ]

\* the sum of the passing grades only
RECURSIVE SumGradesOfPassing(_)
SumGradesOfPassing(entries) ==
  IF entries = <<>> THEN 0
  ELSE (IF Head(entries).grade >= PASSING_GRADE THEN Head(entries).grade ELSE 0)
       + SumGradesOfPassing(Tail(entries))

RECURSIVE SumGrades(_)
SumGrades(entries) ==
  IF entries = <<>> THEN 0 ELSE Head(entries).grade + SumGrades(Tail(entries))

\* the entries with a grade
DropNullGrades(entries) ==
  LET HasGrade(e) == e.grade # NullGrade
  IN SelectSeq(entries, HasGrade)

\* TranscriptService.analyze_transcript; gpa is kept as the exact fraction
\* total / count
AnalyzeTranscript(grades_arg) ==
  IF grades_arg = <<>>
    THEN Raises("ValueError", "No grades provided for analysis")
  ELSE
    LET grades == DropNullGrades(grades_arg)
        count == Len(grades)
        total == SumGrades(grades)
        sorted_subjects == SortedByGrade(grades)
        IsStrong(e) == e.grade >= StrengthGrade
        IsWeak(e) == e.grade < StrengthGrade
        first3 == SubSeq(sorted_subjects, 1, IF count < 3 THEN count ELSE 3)
        last3 == SubSeq(sorted_subjects, IF count < 3 THEN 1 ELSE count - 2,
                        count)
        Subjects(es) == [i \in 1..Len(es) |-> es[i].subject]
    IN IF grades = <<>>
         THEN Raises("ValueError", "All grades are None - no valid data")
       ELSE IF \E i \in 1..count : ~ValidateGrade(grades[i].grade)
         THEN Raises("ValueError", "Invalid grade (must be 0-20)")
       ELSE Return([
         grades |-> grades,
         gpa |-> [total |-> total, count |-> count],
         strengths |-> Subjects(SelectSeq(first3, IsStrong)),
         weaknesses |-> Subjects(SelectSeq(last3, IsWeak)),
         passing_all |-> \A i \in 1..count : grades[i].grade >= PASSING_GRADE,
         overall_quality |->
           IF total >= ExcellentGpa * count THEN "excellent"
           ELSE IF total >= GoodGpa * count THEN "good"
           ELSE IF total >= AdequateGpa * count THEN "adequate"
           ELSE "needs_improvement" ])


\* get_major_by_name found nothing
NoMajor ==
  EmptyDict

\* the first index of the list that satisfies the test, 0 when none does
FirstIndex(matching) ==
  IF matching = {} THEN 0 ELSE CHOOSE i \in matching : \A j \in matching : i <= j

\* settings.get_major_by_name
GetMajorByName(majors, name, fuzzy) ==
  LET name_lower == Lower(name)
      partial == { i \in 1..Len(majors) :
                     \/ Contains(Lower(majors[i].name), name_lower)
                     \/ /\ "name_pt" \in DOMAIN majors[i]
                        /\ Contains(Lower(majors[i].name_pt), name_lower) }
      exact == { i \in 1..Len(majors) : Lower(majors[i].name) = name_lower }
      index == FirstIndex(IF fuzzy THEN partial ELSE exact)
  IN IF index = 0 THEN NoMajor ELSE majors[index]

\* largest gap that is still "close", in tenths
CloseGap == 20

\* largest gap of priority 2, in tenths
HighGap == 40

\* a severity that calls a gap of exactly 2 points significant
SeverityStrict(gap_value) ==
  IF gap_value <= 0 THEN "meets"
  ELSE IF gap_value < CloseGap THEN "close"
  ELSE "significant"

\* compare_grades_to_requirements, lines 193-199
Severity(gap_value) ==
  IF gap_value <= 0 THEN "meets"
  ELSE IF gap_value <= CloseGap THEN "close"
  ELSE "significant"

\* compare_grades_to_requirements, lines 201-209
Priority(gap_value) ==
  IF gap_value > HighGap THEN 1
  ELSE IF gap_value > CloseGap THEN 2
  ELSE IF gap_value > 0 THEN 3
  ELSE 4

\* a missing grade counted as 0
StudentGradeOrZero(found) ==
  IF found = NullGrade THEN 0 ELSE found

\* compare_grades_to_requirements, lines 186-189
StudentGradeOrPassing(found) ==
  IF found = NullGrade THEN PASSING_GRADE ELSE found

\* the GradeGap of one requirement
GradeGapFor(student_grades, requirement) ==
  LET student_grade ==
        StudentGradeOrPassing(
          FindMatchingGrade(student_grades, requirement.subject))
      gap_value == requirement.required_grade - student_grade
  IN [ subject |-> requirement.subject,
       student_grade |-> student_grade,
       required_grade |-> requirement.required_grade,
       gap |-> gap_value,
       severity |-> Severity(gap_value),
       priority |-> Priority(gap_value) ]

\* a label that takes one significant gap for significant_gaps
ReadinessOneSignificant(gaps) ==
  LET actual_gaps == { i \in 1..Len(gaps) : gaps[i].gap > 0 }
      significant == { i \in actual_gaps : gaps[i].severity = "significant" }
  IN IF actual_gaps = {} THEN "ready"
     ELSE IF \A i \in actual_gaps : gaps[i].severity = "close"
       THEN "mostly_ready"
     ELSE IF significant # {} THEN "significant_gaps"
     ELSE "needs_improvement"

\* compare_grades_to_requirements, lines 220-233
Readiness(gaps) ==
  LET actual_gaps == { i \in 1..Len(gaps) : gaps[i].gap > 0 }
      significant == { i \in actual_gaps : gaps[i].severity = "significant" }
  IN IF actual_gaps = {} THEN "ready"
     ELSE IF \A i \in actual_gaps : gaps[i].severity = "close"
       THEN "mostly_ready"
     ELSE IF significant # {}
       THEN IF Cardinality(significant) >= 2 THEN "significant_gaps"
            ELSE "needs_improvement"
     ELSE "needs_improvement"

\* a comparison that answers a major without requirements with no gaps
CompareGradesToRequirementsLenient(majors, student_grades, major_name) ==
  LET major == GetMajorByName(majors, major_name, TRUE)
      requirements == Get(major, "requirements", <<>>)
      gaps == [ i \in 1..Len(requirements) |->
                  GradeGapFor(student_grades, requirements[i]) ]
  IN IF DOMAIN major = {}
       THEN Raises("ValueError", "Major not found in database")
     ELSE Return([gaps |-> gaps, readiness |-> Readiness(gaps)])

\* TranscriptService.compare_grades_to_requirements
CompareGradesToRequirements(majors, student_grades, major_name) ==
  LET major == GetMajorByName(majors, major_name, TRUE)
      requirements == Get(major, "requirements", <<>>)
      gaps == [ i \in 1..Len(requirements) |->
                  GradeGapFor(student_grades, requirements[i]) ]
  IN IF DOMAIN major = {}
       THEN Raises("ValueError", "Major not found in database")
     ELSE IF requirements = <<>>
       THEN Raises("ValueError", "No requirements data for major")
     ELSE Return([gaps |-> gaps, readiness |-> Readiness(gaps)])

\* actual_gaps.sort(key=priority) of identify_grade_gaps and
\* gap_list.sort(key=priority) of analyze_grades: the position of gap_list[i]
RankByPriority(gap_list, i) ==
  1 + Cardinality({ j \in 1..Len(gap_list) :
                      \/ gap_list[j].priority < gap_list[i].priority
                      \/ gap_list[j].priority = gap_list[i].priority /\ j < i })

SortedByPriority(gap_list) ==
  [ p \in 1..Len(gap_list) |->
      gap_list[CHOOSE i \in 1..Len(gap_list) : RankByPriority(gap_list, i) = p] ]

\* the "gaps" entry of identify_grade_gaps for a GradeGap
GapEntry(g) ==
  [ subject |-> g.subject, current |-> g.student_grade,
    required |-> g.required_grade, gap |-> g.gap, severity |-> g.severity ]

\* the "strengths" entry of identify_grade_gaps for a GradeGap
StrengthEntry(g) ==
  [ subject |-> g.subject, grade |-> g.student_grade,
    required |-> g.required_grade, excess |-> 0 - g.gap ]

\* the report of identify_grade_gaps for the gaps as they are ordered
GapReport(readiness, actual_gaps, meeting) ==
  [ readiness |-> readiness,
    total_gaps |-> Len(actual_gaps),
    gaps |-> [ i \in 1..Len(actual_gaps) |-> GapEntry(actual_gaps[i]) ],
    strengths |-> [ i \in 1..Len(meeting) |-> StrengthEntry(meeting[i]) ],
    priority_subjects |->
      [ i \in 1..(IF Len(actual_gaps) < 3 THEN Len(actual_gaps) ELSE 3) |->
          actual_gaps[i].subject ] ]

\* identify_grade_gaps that reports the gaps in requirement order
IdentifyGradeGapsUnsorted(majors, student_grades, major_name) ==
  LET IsGap(g) == g.gap > 0
      Meets(g) == ~(g.gap > 0)
      Report(compared) ==
        IF compared.kind = "raise" THEN compared
        ELSE Return(GapReport(compared.value.readiness,
                              SelectSeq(compared.value.gaps, IsGap),
                              SelectSeq(compared.value.gaps, Meets)))
  IN CHOOSE report \in
       { Report(compared) :
           compared \in { CompareGradesToRequirements(majors, student_grades,
                                                      major_name) } } : TRUE

\* TranscriptService.identify_grade_gaps: one call of
\* compare_grades_to_requirements, whose ValueError passes through, then the
\* gaps by priority and the requirements that are met
IdentifyGradeGaps(majors, student_grades, major_name) ==
  LET IsGap(g) == g.gap > 0
      Meets(g) == ~(g.gap > 0)
      Report(compared) ==
        IF compared.kind = "raise" THEN compared
        ELSE Return(GapReport(compared.value.readiness,
                              SortedByPriority(SelectSeq(compared.value.gaps, IsGap)),
                              SelectSeq(compared.value.gaps, Meets)))
  IN CHOOSE report \in
       { Report(compared) :
           compared \in { CompareGradesToRequirements(majors, student_grades,
                                                      major_name) } } : TRUE

\* most entries of a grades dict given to analyze_transcript
MaxSubjects == 3

\* most entries of a grades dict given to compare_grades_to_requirements
MaxGradeEntries == 2

\* the keys of a transcript's grades, in the order they are inserted
SubjectKeys ==
  <<
    <<"M","a","t","h">>,
    <<"P","h","y","s","i","c","s">>,
    <<"P","o","r","t","u","g","u","e","s","e">>,
    <<"H","i","s","t","o","r","y">>,
    <<"E","n","g","l","i","s","h">>
  >>

\* grades of a transcript: null, below and above the scale, and on it
TranscriptGradeValues ==
  { NullGrade, -5, 0, 95, 100, 140, 170, 200, 205 }

TranscriptGrades ==
  UNION { { [i \in 1..n |-> [subject |-> SubjectKeys[i], grade |-> g[i]]] :
              g \in [1..n -> TranscriptGradeValues] } :
          n \in 0..MaxSubjects }

\* keys of the grades compared with requirements: canonical, localized,
\* differently cased, and one no major requires
StudentSubjects ==
  {
    <<"M","a","t","h">>,
    <<"M","a","t","e","m","á","t","i","c","a"," ","A">>,
    <<"p","h","y","s","i","c","s">>,
    <<"P","o","r","t","u","g","u","e","s","e">>
  }

StudentGradeValues ==
  { NullGrade, 100, 119, 120, 140, 160 }

StudentGrades ==
  UNION { { g \in [1..n -> [subject : StudentSubjects,
                            grade : StudentGradeValues]] :
              \A i, j \in 1..n : i # j => g[i].subject # g[j].subject } :
          n \in 0..MaxGradeEntries }

\* major names a caller asks for: a name, a name in other case, a part of
\* two names, a part of a localized name, the name of the major without
\* requirements, a name the dataset does not know, the empty name, and a
\* name that is also part of an earlier major's name
MajorNames ==
  {
    <<"E","n","g","i","n","e","e","r","i","n","g">>,
    <<"C","o","m","p","u","t","e","r"," ","S","c","i","e","n","c","e">>,
    <<"C","O","M","P","U","T","E","R"," ","E","N","G","I","N","E","E","R","I","N","G">>,
    <<"c","o","m","p","u","t","e","r">>,
    <<"E","n","g","e","n","h","a","r","i","a">>,
    <<"F","i","n","e"," ","A","r","t","s">>,
    <<"A","s","t","r","o","l","o","g","y">>,
    <<>>
  }

\* subjects looked up in a grades dict: canonical, lower-cased, localized,
\* padded with a blank, and one that no mapping mentions
\* major names identify_grade_gaps is asked about: two majors with
\* requirements and an unknown one
IdentifyMajorNames ==
  {
    <<"C","o","m","p","u","t","e","r"," ","S","c","i","e","n","c","e">>,
    <<"C","O","M","P","U","T","E","R"," ","E","N","G","I","N","E","E","R","I","N","G">>,
    <<"A","s","t","r","o","l","o","g","y">>
  }

TargetSubjects ==
  {
    <<"M","a","t","h">>,
    <<"p","h","y","s","i","c","s">>,
    <<"M","a","t","e","m","á","t","i","c","a"," ","A">>,
    <<" ","M","a","t","h">>,
    <<"C","h","e","m","i","s","t","r","y">>
  }

TranscriptCalls ==
  { [fn |-> "find_matching_grade", grades |-> g, target_subject |-> s] :
      g \in StudentGrades, s \in TargetSubjects } \cup
  { [fn |-> "analyze_transcript", grades |-> g] : g \in TranscriptGrades } \cup
  { [fn |-> "compare_grades_to_requirements", student_grades |-> g,
     major_name |-> n] : g \in StudentGrades, n \in MajorNames } \cup
  { [fn |-> "identify_grade_gaps", student_grades |-> g,
     major_name |-> n] : g \in StudentGrades, n \in IdentifyMajorNames }

CallFindMatchingGrade ==
  /\ call.fn = "find_matching_grade"
  /\ ret = Pending
  /\ ret' = Return(FindMatchingGrade(call.grades, call.target_subject))
  /\ UNCHANGED << turn, pc, call, settings >>

CallAnalyzeTranscript ==
  /\ call.fn = "analyze_transcript"
  /\ ret = Pending
  /\ ret' = AnalyzeTranscript(call.grades)
  /\ UNCHANGED << turn, pc, call, settings >>

CallIdentifyGradeGaps ==
  /\ call.fn = "identify_grade_gaps"
  /\ ret = Pending
  /\ ret' = IdentifyGradeGaps(Majors, call.student_grades, call.major_name)
  /\ UNCHANGED << turn, pc, call, settings >>

CallCompareGradesToRequirements ==
  /\ call.fn = "compare_grades_to_requirements"
  /\ ret = Pending
  /\ ret' = CompareGradesToRequirements(Majors, call.student_grades,
                                        call.major_name)
  /\ UNCHANGED << turn, pc, call, settings >>

TranscriptInit ==
  /\ NoTurn
  /\ MajorsLoaded
  /\ pc = "direct"
  /\ call \in TranscriptCalls
  /\ ret = Pending

TranscriptNext ==
  \/ CallFindMatchingGrade
  \/ CallIdentifyGradeGaps
  \/ CallAnalyzeTranscript
  \/ CallCompareGradesToRequirements

TranscriptSpec ==
  TranscriptInit /\ [][TranscriptNext]_vars

----------------------------------------------------------------------------
(* Major Service (services/major_service.py)                               *)

\* An argument the LLM supplies may be an int, a str or None.  A score is
\* kept exactly, in units of 1/ScoreScale.
IntArg(n) ==
  [type |-> "int", int |-> n]

StrArg(s) ==
  [type |-> "str", str |-> s]

NoneArg ==
  [type |-> "NoneType"]

\* bool(value)
Truthy(value) ==
  CASE value.type = "int" -> value.int # 0
    [] value.type = "str" -> value.str # <<>>
    [] OTHER -> FALSE

Digits ==
  <<"0","1","2","3","4","5","6","7","8","9">>

IsDigit(c) ==
  \E i \in 1..Len(Digits) : Digits[i] = c

DigitValue(c) ==
  (CHOOSE i \in 1..Len(Digits) : Digits[i] = c) - 1

RECURSIVE DecimalValue(_)
DecimalValue(digits) ==
  IF digits = <<>> THEN 0
  ELSE 10 * DecimalValue(SubSeq(digits, 1, Len(digits) - 1))
       + DigitValue(digits[Len(digits)])

\* int(value): an int is kept; a str is stripped and read as an optional sign
\* and decimal digits, and anything else is a ValueError
PyInt(value) ==
  IF value.type = "int" THEN [ok |-> TRUE, int |-> value.int]
  ELSE LET text == Strip(value.str)
           signed == text # <<>> /\ text[1] \in {"+", "-"}
           digits == IF signed THEN Tail(text) ELSE text
           wellformed == digits # <<>> /\ \A i \in 1..Len(digits) : IsDigit(digits[i])
       IN IF ~wellformed THEN [ok |-> FALSE, int |-> 0]
          ELSE [ok |-> TRUE,
                int |-> IF signed /\ text[1] = "-" THEN 0 - DecimalValue(digits)
                        ELSE DecimalValue(digits)]

DefaultTopN == 5

\* top_n = int(top_n) if top_n else 5
CoerceTopN(top_n) ==
  IF Truthy(top_n) THEN PyInt(top_n) ELSE [ok |-> TRUE, int |-> DefaultTopN]

ScoreScale == 120
InterestWeight == 48
SubjectWeight == 36
CareerWeight == 36
DescriptionWeight == 12

LowerAll(texts) ==
  [i \in 1..Len(texts) |-> Lower(texts[i])]

ToSet(seq) ==
  { seq[i] : i \in 1..Len(seq) }

\* set(interests_lower) & set(major_keywords)
InterestMatches(major, interests_lower) ==
  ToSet(interests_lower) \cap ToSet(LowerAll(major.keywords))

\* each favourite subject, and its normalized name when that differs
MappedSubjects(subjects_lower) ==
  ToSet(subjects_lower)
    \cup { NormalizeSubjectName(subjects_lower[i]) : i \in 1..Len(subjects_lower) }

\* set(mapped_subjects) & set(req_keys_lower)
SubjectMatches(major, subjects_lower) ==
  MappedSubjects(subjects_lower)
    \cap { Lower(major.requirements[k].subject) : k \in 1..Len(major.requirements) }

\* any(career_lower in cp or cp in career_lower for cp in career_paths)
CareerMatches(major, career_lower) ==
  \E k \in 1..Len(major.career_paths) :
    LET cp == Lower(major.career_paths[k])
    IN Contains(cp, career_lower) \/ Contains(career_lower, cp)

\* sum(1 for interest in interests_lower if interest in description)
DescMatches(major, interests_lower) ==
  Cardinality({ i \in 1..Len(interests_lower) :
                  Contains(Lower(major.description), interests_lower[i]) })

\* the score of one major, in units of 1/ScoreScale
MajorScore(major, interests, favorite_subjects, career_goals) ==
  LET interests_lower == LowerAll(interests)
      subjects_lower == LowerAll(favorite_subjects)
      career_lower == Lower(career_goals)
      interest_matches == InterestMatches(major, interests_lower)
      subject_matches == SubjectMatches(major, subjects_lower)
      desc_matches == DescMatches(major, interests_lower)
  IN (IF interest_matches # {}
      THEN (InterestWeight * Cardinality(interest_matches)) \div Len(interests_lower)
      ELSE 0)
     + (IF favorite_subjects # <<>> /\ subject_matches # {}
        THEN (SubjectWeight * Cardinality(subject_matches)) \div Len(major.requirements)
        ELSE 0)
     + (IF career_goals # <<>> /\ CareerMatches(major, career_lower)
        THEN CareerWeight ELSE 0)
     + (IF desc_matches > 0 /\ Len(interests_lower) > 0
        THEN (DescriptionWeight * desc_matches) \div Len(interests_lower)
        ELSE 0)

\* the reasons of one match, by kind
MatchReasons(major, interests, favorite_subjects, career_goals) ==
  LET given ==
        (IF InterestMatches(major, LowerAll(interests)) # {}
         THEN <<"Matches your interests">> ELSE <<>>)
        \o (IF favorite_subjects # <<>>
               /\ SubjectMatches(major, LowerAll(favorite_subjects)) # {}
            THEN <<"Aligns with your strong subjects">> ELSE <<>>)
        \o (IF career_goals # <<>> /\ CareerMatches(major, Lower(career_goals))
            THEN <<"Matches your career goals">> ELSE <<>>)
  IN IF given = <<>> THEN <<"General interest alignment">> ELSE given

\* MajorMatch(major, score, reasons, matching_keywords)
MajorMatch(major, interests, favorite_subjects, career_goals) ==
  [ major |-> major.id,
    score |-> MajorScore(major, interests, favorite_subjects, career_goals),
    reasons |-> MatchReasons(major, interests, favorite_subjects, career_goals),
    matching_keywords |->
      InterestMatches(major, LowerAll(interests))
        \cup (IF favorite_subjects # <<>>
              THEN SubjectMatches(major, LowerAll(favorite_subjects)) ELSE {}) ]

\* the position of matches[i] when equal scores come out in reverse order
RankByScoreLastFirst(matches, i) ==
  1 + Cardinality({ j \in 1..Len(matches) :
                      \/ matches[j].score > matches[i].score
                      \/ matches[j].score = matches[i].score /\ j > i })

\* matches.sort(key=score, reverse=True): the position of matches[i]; the
\* sort is stable, so equal scores keep their order
RankByScore(matches, i) ==
  1 + Cardinality({ j \in 1..Len(matches) :
                      \/ matches[j].score > matches[i].score
                      \/ matches[j].score = matches[i].score /\ j < i })

SortedByScore(matches) ==
  [ p \in 1..Len(matches) |->
      matches[CHOOSE i \in 1..Len(matches) : RankByScore(matches, i) = p] ]

\* seq[:n]
Prefix(seq, n) ==
  IF n >= 0
  THEN SubSeq(seq, 1, IF n < Len(seq) THEN n ELSE Len(seq))
  ELSE SubSeq(seq, 1, IF Len(seq) + n > 0 THEN Len(seq) + n ELSE 0)

\* MajorService.match_interests_to_majors
MatchInterestsToMajors(majors, interests, favorite_subjects, career_goals, top_n) ==
  LET coerced == CoerceTopN(top_n)
      scored == [ i \in 1..Len(majors) |->
                    MajorMatch(majors[i], interests, favorite_subjects, career_goals) ]
      Positive(m) == m.score > 0
      matches == SortedByScore(SelectSeq(scored, Positive))
  IN IF ~coerced.ok
     THEN Raises("ValueError", "invalid literal for int() with base 10")
     ELSE Return(Prefix(matches, coerced.int))

\* the module-level match_interests_to_majors
MatchInterestsToMajorsWrapper(majors, interests, favorite_subjects, career_goals, top_n) ==
  LET coerced == CoerceTopN(top_n)
  IN IF ~coerced.ok
     THEN Raises("ValueError", "invalid literal for int() with base 10")
     ELSE MatchInterestsToMajors(majors, interests, favorite_subjects, career_goals,
                                 IntArg(coerced.int))

MaxInterests == 2

InterestWords ==
  { <<"p","r","o","g","r","a","m","m","i","n","g">>,
    <<"M","a","t","h">>,
    <<"d","e","s","i","g","n">> }

RECURSIVE InterestLists(_)
InterestLists(n) ==
  IF n = 0 THEN { <<>> }
  ELSE InterestLists(n - 1)
         \cup { Append(l, w) : l \in { x \in InterestLists(n - 1) : Len(x) = n - 1 },
                               w \in InterestWords }

FavoriteSubjectLists ==
  { <<>>,
    << <<"M","a","t","h">> >>,
    << <<"M","a","t","e","m","á","t","i","c","a"," ","A">> >>,
    << <<"p","h","y","s","i","c","s">>, <<"M","a","t","h">> >> }

\* None and "" are both falsy and are treated alike
CareerGoals ==
  { <<>>, <<"E","n","g","i","n","e","e","r">>, <<"a","r","t","i","s","t">> }

TopNValues ==
  { IntArg(5), IntArg(1), IntArg(2), IntArg(0), IntArg(-1),
    StrArg(<<"2">>), StrArg(<<"0">>), StrArg(<<"m","a","n","y">>), NoneArg }

MajorCalls ==
  { [fn |-> fn, interests |-> i, favorite_subjects |-> s, career_goals |-> c,
     top_n |-> n] :
      fn \in {"MajorService.match_interests_to_majors", "match_interests_to_majors"},
      i \in InterestLists(MaxInterests), s \in FavoriteSubjectLists,
      c \in CareerGoals, n \in TopNValues }

CallMatchInterestsToMajors ==
  /\ call.fn = "MajorService.match_interests_to_majors"
  /\ ret = Pending
  /\ ret' = MatchInterestsToMajors(Majors, call.interests, call.favorite_subjects,
                                   call.career_goals, call.top_n)
  /\ UNCHANGED << turn, pc, call, settings >>

CallMatchInterestsToMajorsWrapper ==
  /\ call.fn = "match_interests_to_majors"
  /\ ret = Pending
  /\ ret' = MatchInterestsToMajorsWrapper(Majors, call.interests,
                                          call.favorite_subjects,
                                          call.career_goals, call.top_n)
  /\ UNCHANGED << turn, pc, call, settings >>

MajorInit ==
  /\ NoTurn
  /\ MajorsLoaded
  /\ pc = "direct"
  /\ call \in MajorCalls
  /\ ret = Pending

MajorNext ==
  \/ CallMatchInterestsToMajors
  \/ CallMatchInterestsToMajorsWrapper

MajorSpec ==
  MajorInit /\ [][MajorNext]_vars

----------------------------------------------------------------------------
(* Major data management (config/settings.py)                              *)

REQUIRED_FIELDS ==
  {"id", "name", "description", "requirements"}

\* a record without its requirements
MajorWithoutRequirements ==
  [ id |-> "design",
    name |-> <<"D","e","s","i","g","n">>,
    description |-> <<"V","i","s","u","a","l"," ","d","e","s","i","g","n">> ]

\* what data/majors.json may hold: nothing, text that is not JSON, an
\* object, an empty list, a list with an incomplete record, or a dataset
MajorsFiles ==
  { [kind |-> "missing"],
    [kind |-> "malformed"],
    JsonFile(JsonObject),
    JsonFile(JsonList(<<>>)),
    JsonFile(JsonList(<< Majors[1], MajorWithoutRequirements >>)),
    JsonFile(JsonList(SubSeq(Majors, 1, 2))),
    JsonFile(JsonList(Majors)) }

\* the indices of the records that miss a required field
MissingFields(items) ==
  { idx \in 1..Len(items) : ~(REQUIRED_FIELDS \subseteq DOMAIN items[idx]) }

\* load_majors(force_reload): the value of _MAJORS_CACHE when it ends, and
\* what it returns or raises
LoadMajors(cache, file, force_reload) ==
  IF cache # NoCache /\ ~force_reload
  THEN [cache |-> cache, ret |-> Return(cache)]
  ELSE IF file.kind = "missing"
  THEN [cache |-> cache,
        ret |-> Raises("FileNotFoundError", "Majors data file not found")]
  ELSE IF file.kind = "malformed"
  THEN [cache |-> cache,
        ret |-> Raises("ValueError", "Invalid JSON in majors.json")]
  ELSE LET loaded == file.document
       IN [cache |-> loaded,
           ret |->
             IF loaded.type # "list"
             THEN Raises("ValueError", "majors.json must contain a list of major objects")
             ELSE IF Len(loaded.items) = 0
             THEN Raises("ValueError", "majors.json is empty")
             ELSE IF MissingFields(loaded.items) # {}
             THEN Raises("ValueError", "Major is missing required fields")
             ELSE Return(loaded)]

\* data/majors.json is replaced on disk
WriteMajorsFile(content) ==
  /\ pc = "direct"
  /\ majors_file # content
  /\ majors_file' = content
  /\ UNCHANGED << turn, pc, call, ret, MAJORS_CACHE >>

CallLoadMajors(force_reload) ==
  /\ pc = "direct"
  /\ LET result == LoadMajors(MAJORS_CACHE, majors_file, force_reload)
     IN /\ call' = [fn |-> "load_majors", force_reload |-> force_reload]
        /\ ret' = result.ret
        /\ MAJORS_CACHE' = result.cache
  /\ UNCHANGED << turn, pc, majors_file >>

LoadInit ==
  /\ NoTurn
  /\ pc = "direct"
  /\ call = NoCall
  /\ ret = Pending
  /\ MAJORS_CACHE = NoCache
  /\ majors_file \in MajorsFiles

LoadNext ==
  \/ \E content \in MajorsFiles : WriteMajorsFile(content)
  \/ \E force_reload \in BOOLEAN : CallLoadMajors(force_reload)

LoadSpec ==
  LoadInit /\ [][LoadNext]_vars

\* two threads that each call load_majors once, without any lock
Threads ==
  { "first", "concurrent" }

\* load_majors, lines 161-176: the checks made on the global after the
\* assignment, and the return of the global
ValidateMajors(loaded) ==
  IF loaded.type # "list"
  THEN Raises("ValueError", "majors.json must contain a list of major objects")
  ELSE IF Len(loaded.items) = 0
  THEN Raises("ValueError", "majors.json is empty")
  ELSE IF MissingFields(loaded.items) # {}
  THEN Raises("ValueError", "Major is missing required fields")
  ELSE Return(loaded)

\* load_majors, line 144: thread t enters and tests the cache
ThreadCallsLoadMajors(t, force_reload) ==
  /\ pc[t] = "idle"
  /\ call' = [call EXCEPT ![t] = [fn |-> "load_majors",
                                  force_reload |-> force_reload]]
  /\ IF MAJORS_CACHE # NoCache /\ ~force_reload
       THEN /\ ret' = [ret EXCEPT ![t] = Return(MAJORS_CACHE)]
            /\ pc' = [pc EXCEPT ![t] = "done"]
       ELSE /\ pc' = [pc EXCEPT ![t] = "open"]
            /\ UNCHANGED ret
  /\ UNCHANGED << turn, settings >>

\* load_majors, lines 147-159: the existence test, then json.load and the
\* assignment of its result to the global
ThreadReadsFile(t) ==
  /\ pc[t] = "open"
  /\ IF majors_file.kind = "missing"
       THEN /\ ret' = [ret EXCEPT ![t] =
                         Raises("FileNotFoundError", "Majors data file not found")]
            /\ pc' = [pc EXCEPT ![t] = "done"]
            /\ UNCHANGED MAJORS_CACHE
     ELSE IF majors_file.kind = "malformed"
       THEN /\ ret' = [ret EXCEPT ![t] =
                         Raises("ValueError", "Invalid JSON in majors.json")]
            /\ pc' = [pc EXCEPT ![t] = "done"]
            /\ UNCHANGED MAJORS_CACHE
     ELSE /\ MAJORS_CACHE' = majors_file.document
          /\ pc' = [pc EXCEPT ![t] = "validate"]
          /\ UNCHANGED ret
  /\ UNCHANGED << turn, call, majors_file >>

\* load_majors, lines 161-176: thread t validates the global and returns it
ThreadValidates(t) ==
  /\ pc[t] = "validate"
  /\ ret' = [ret EXCEPT ![t] = ValidateMajors(MAJORS_CACHE)]
  /\ pc' = [pc EXCEPT ![t] = "done"]
  /\ UNCHANGED << turn, call, settings >>

\* the cache is empty or holds the dataset an earlier call loaded and validated
ThreadedInit ==
  /\ NoTurn
  /\ pc = [t \in Threads |-> "idle"]
  /\ call = [t \in Threads |-> NoCall]
  /\ ret = [t \in Threads |-> Pending]
  /\ MAJORS_CACHE \in { NoCache, JsonList(Majors) }
  /\ majors_file \in MajorsFiles

ThreadedNext ==
  \/ \E t \in Threads, force_reload \in BOOLEAN :
       ThreadCallsLoadMajors(t, force_reload)
  \/ \E t \in Threads : ThreadReadsFile(t)
  \/ \E t \in Threads : ThreadValidates(t)

ThreadedLoadSpec ==
  ThreadedInit /\ [][ThreadedNext]_vars

----------------------------------------------------------------------------
(* Retry decorators (ai/llm_service.py, tools/transcript_tools.py)         *)

\* MAX_RETRIES and RETRY_DELAY (in tenths of a second) of the settings
MAX_RETRIES == 3

RETRY_DELAY == 10

\* largest max_retries a decorator is built with
MaxRetriesArg == 3

\* str(e) of the errors an LLM function raises
RateLimitText ==
  <<"R","a","t","e"," ","L","i","m","i","t"," ","r","e","a","c","h","e","d">>

QuotaText ==
  <<"4","2","9"," ","q","u","o","t","a"," ","e","x","c","e","e","d","e","d">>

UnavailableText ==
  <<"5","0","3"," ","S","e","r","v","i","c","e"," ","U","n","a","v","a","i","l","a","b","l","e">>

InvalidKeyText ==
  <<"A","P","I"," ","k","e","y"," ","n","o","t"," ","v","a","l","i","d">>

LLMErrorTexts ==
  { RateLimitText, QuotaText, UnavailableText, InvalidKeyText }

\* retry_on_error, lines 183-190
Retryable(error_msg) ==
  \/ Contains(Lower(error_msg), <<"r","a","t","e"," ","l","i","m","i","t">>)
  \/ Contains(Lower(error_msg), <<"q","u","o","t","a">>)
  \/ Contains(Lower(error_msg), <<"t","i","m","e","o","u","t">>)
  \/ Contains(error_msg, <<"5","0","3">>)
  \/ Contains(error_msg, <<"4","2","9">>)
  \/ Contains(error_msg, <<"5","0","0">>)

\* what the wrapped function did in one invocation
Returned(value) ==
  [raised |-> FALSE, value |-> value]

Raised(text) ==
  [raised |-> TRUE, text |-> text]

\* the wrappers being run: call holds the decorator's arguments, the locals
\* of the wrapper, and the log of the invocations and sleeps made so far
RetryCalls ==
  { [ fn |-> "retry_on_error", max_retries |-> m, delay |-> d, retries |-> 0,
      current_delay |-> d, attempts |-> <<>>, slept |-> <<>> ] :
      m \in (0..MaxRetriesArg) \cup {MAX_RETRIES}, d \in {5, RETRY_DELAY} } \cup
  { [ fn |-> "retry_on_failure", max_retries |-> m, tool |-> t, attempt |-> 0,
      attempts |-> <<>>, slept |-> <<>> ] :
      m \in 0..MaxRetriesArg, t \in {"get_major_info", "analyze_grades"} }

\* the text an LLM function returns on its k-th invocation
LLMResultOf(k) ==
  [text |-> "Here is what I found for you.", invocation |-> k]

\* retry_on_error, lines 174-176: the loop is entered and func returns
FuncReturns ==
  /\ pc = "wrapper"
  /\ call.fn = "retry_on_error"
  /\ call.retries < call.max_retries
  /\ LET value == LLMResultOf(Len(call.attempts) + 1)
     IN /\ call' = [call EXCEPT !.attempts = Append(@, Returned(value))]
        /\ ret' = Return(value)
  /\ pc' = "done"
  /\ UNCHANGED << turn, settings >>

\* a handler that retries whatever the error says
FuncRaisesRetriesAll(error_msg) ==
  /\ pc = "wrapper"
  /\ call.fn = "retry_on_error"
  /\ call.retries < call.max_retries
  /\ IF call.retries >= call.max_retries - 1
       THEN /\ call' = [call EXCEPT !.attempts = Append(@, Raised(error_msg))]
            /\ ret' = Raises("Exception", error_msg)
            /\ pc' = "done"
       ELSE /\ call' = [call EXCEPT !.attempts = Append(@, Raised(error_msg)),
                                    !.retries = @ + 1,
                                    !.slept = Append(@, call.current_delay),
                                    !.current_delay = @ * 2]
            /\ UNCHANGED << ret, pc >>
  /\ UNCHANGED << turn, settings >>

\* retry_on_error, lines 178-203: func raises; the error is re-raised when it
\* is not retryable or this was the last attempt, else the wrapper sleeps
\* current_delay, doubles it and loops
FuncRaises(error_msg) ==
  /\ pc = "wrapper"
  /\ call.fn = "retry_on_error"
  /\ call.retries < call.max_retries
  /\ IF ~Retryable(error_msg) \/ call.retries >= call.max_retries - 1
       THEN /\ call' = [call EXCEPT !.attempts = Append(@, Raised(error_msg))]
            /\ ret' = Raises("Exception", error_msg)
            /\ pc' = "done"
       ELSE /\ call' = [call EXCEPT !.attempts = Append(@, Raised(error_msg)),
                                    !.retries = @ + 1,
                                    !.slept = Append(@, call.current_delay),
                                    !.current_delay = @ * 2]
            /\ UNCHANGED << ret, pc >>
  /\ UNCHANGED << turn, settings >>

\* retry_on_error, lines 174 and 205: the loop condition is false
LoopExhausted ==
  /\ pc = "wrapper"
  /\ call.fn = "retry_on_error"
  /\ ~(call.retries < call.max_retries)
  /\ ret' = Raises("Exception", "Max retries exceeded")
  /\ pc' = "done"
  /\ UNCHANGED << turn, call, settings >>

\* what a tool body returns: its result, or a result that reports a failure
ToolBodyResults ==
  { [success |-> TRUE, major |-> "Computer Science"],
    [success |-> FALSE, error |-> "Major not found in database"] }

\* str(e) of what a tool body raises
ToolBodyErrors ==
  { "unexpected keyword argument", "'NoneType' object has no attribute 'get'" }

\* a wrapper that calls the body again when its result reports a failure
BodyReturnsRetriesFailure(value) ==
  /\ pc = "wrapper"
  /\ call.fn = "retry_on_failure"
  /\ call.attempt <= call.max_retries
  /\ IF value.success \/ call.attempt = call.max_retries
       THEN /\ call' = [call EXCEPT !.attempts = Append(@, Returned(value))]
            /\ ret' = Return(value)
            /\ pc' = "done"
       ELSE /\ call' = [call EXCEPT !.attempts = Append(@, Returned(value)),
                                    !.attempt = @ + 1]
            /\ UNCHANGED << ret, pc >>
  /\ UNCHANGED << turn, settings >>

\* retry_on_failure, lines 35-37: an attempt is made and the body returns
BodyReturns(value) ==
  /\ pc = "wrapper"
  /\ call.fn = "retry_on_failure"
  /\ call.attempt <= call.max_retries
  /\ call' = [call EXCEPT !.attempts = Append(@, Returned(value))]
  /\ ret' = Return(value)
  /\ pc' = "done"
  /\ UNCHANGED << turn, settings >>

\* retry_on_failure, lines 38-53: the body raises; the wrapper sleeps
\* attempt + 1 seconds and tries again, or after attempt max_retries returns
\* the error structure
BodyRaises(text) ==
  /\ pc = "wrapper"
  /\ call.fn = "retry_on_failure"
  /\ call.attempt <= call.max_retries
  /\ IF call.attempt < call.max_retries
       THEN /\ call' = [call EXCEPT !.attempts = Append(@, Raised(text)),
                                    !.slept = Append(@, 10 * (call.attempt + 1)),
                                    !.attempt = @ + 1]
            /\ UNCHANGED << ret, pc >>
       ELSE /\ call' = [call EXCEPT !.attempts = Append(@, Raised(text))]
            /\ ret' = Return([success |-> FALSE, error |-> text,
                              tool |-> call.tool])
            /\ pc' = "done"
  /\ UNCHANGED << turn, settings >>

RetryInit ==
  /\ NoTurn
  /\ MajorsLoaded
  /\ pc = "wrapper"
  /\ call \in RetryCalls
  /\ ret = Pending

RetryNext ==
  \/ FuncReturns
  \/ \E error_msg \in LLMErrorTexts : FuncRaises(error_msg)
  \/ LoopExhausted
  \/ \E value \in ToolBodyResults : BodyReturns(value)
  \/ \E text \in ToolBodyErrors : BodyRaises(text)

RetrySpec ==
  RetryInit /\ [][RetryNext]_vars

----------------------------------------------------------------------------
(* Transcript tools (tools/transcript_tools.py)                            *)

\* a grade as the LLM passes it: a number, a string or None
FloatArg(n) ==
  [type |-> "float", float |-> n]

\* float(value) in tenths of a point, for a number or a string of digits;
\* any other string is a ValueError
PyFloat(value) ==
  IF value.type = "float" THEN [ok |-> TRUE, float |-> value.float]
  ELSE LET parsed == PyInt(value)
       IN [ok |-> parsed.ok, float |-> 10 * parsed.int]

\* step 0.5: the entries whose grade is not None and converts to float
RECURSIVE CleanGrades(_)
CleanGrades(student_grades) ==
  IF student_grades = <<>> THEN <<>>
  ELSE LET first == Head(student_grades)
           rest == CleanGrades(Tail(student_grades))
       IN IF first.grade.type # "NoneType" /\ PyFloat(first.grade).ok
          THEN << [subject |-> first.subject,
                   grade |-> PyFloat(first.grade).float] >> \o rest
          ELSE rest

\* dict[subject] = grade: an existing key keeps its place
DictPut(dict, subject, grade) ==
  IF \E i \in 1..Len(dict) : dict[i].subject = subject
  THEN [ i \in 1..Len(dict) |->
           IF dict[i].subject = subject
           THEN [subject |-> subject, grade |-> grade] ELSE dict[i] ]
  ELSE Append(dict, [subject |-> subject, grade |-> grade])

RECURSIVE NormalizeInto(_, _)
NormalizeInto(normalized, grades) ==
  IF grades = <<>> THEN normalized
  ELSE LET subject == Head(grades).subject
           grade == Head(grades).grade
           normalized_name == NormalizeSubjectName(subject)
           kept == DictPut(normalized, subject, grade)
       IN NormalizeInto(IF normalized_name # subject
                        THEN DictPut(kept, normalized_name, grade) ELSE kept,
                        Tail(grades))

\* normalize_grade_dict: every entry under its own key and, when it differs,
\* under its normalized key too
NormalizeGradeDict(grades) ==
  NormalizeInto(<<>>, grades)

\* the gaps with is_gap, as the dicts of the result, by priority
GapList(gaps) ==
  LET IsGap(g) == g.gap > 0
      actual == SelectSeq(gaps, IsGap)
  IN SortedByPriority(
       [ i \in 1..Len(actual) |->
           [ subject |-> actual[i].subject,
             current_grade |-> actual[i].student_grade,
             required_grade |-> actual[i].required_grade,
             gap |-> actual[i].gap,
             severity |-> actual[i].severity,
             priority |-> actual[i].priority ] ])

FirstOf(seq, n) ==
  SubSeq(seq, 1, IF Len(seq) < n THEN Len(seq) ELSE n)

\* what generate_structured_output gives for the gap analysis prompt: an
\* exception, or a short analysis with a summary
GapAnalysisReplies ==
  { [raises |-> TRUE],
    [raises |-> FALSE, analysis |-> <<>>, summary |-> ""],
    [raises |-> FALSE, analysis |-> <<>>, summary |-> "Close to ready"],
    [raises |-> FALSE,
     analysis |-> << [subject |-> "Math", recommendation |-> "Practise calculus"] >>,
     summary |-> "Math needs work"] }

\* lines 287-349: the recommendations for a resolved major
GapRecommendations(gap_list, major_name, llm) ==
  IF llm.raises
  THEN [ recommendations |->
           IF gap_list # <<>>
           THEN [ i \in 1..Len(FirstOf(gap_list, 3)) |->
                    [ text |-> "Focus on (need to improve by points)",
                      subject |-> gap_list[i].subject,
                      gap |-> gap_list[i].gap ] ]
           ELSE << [ text |-> "Your grades meet all requirements for",
                     major |-> major_name ],
                   [ text |-> "Continue maintaining your strong performance" ] >> ]
  ELSE LET items == FirstOf(llm.analysis, 3)
           recommendations ==
             [ i \in 1..Len(items) |-> [text |-> items[i].recommendation] ]
           or_summary ==
             IF recommendations = <<>> /\ llm.summary # ""
             THEN << [text |-> llm.summary] >> ELSE recommendations
       IN [ llm_analysis |-> [analysis |-> llm.analysis, summary |-> llm.summary],
            recommendations |->
              IF or_summary = <<>>
              THEN << [text |-> "Focus on your weakest subjects"] >>
              ELSE or_summary,
            summary |-> llm.summary ]

\* the except ValueError branch that calls the student not ready
MajorNotFoundNotReady(major_name) ==
  [ gaps |-> <<>>,
    readiness |-> "not_ready",
    recommendations |->
      << [ text |-> "Could not find requirement data for", major |-> major_name ],
         [ text |-> "Please verify the major name or try a different major" ] >> ]

\* lines 353-361: the major was not found or has no requirements
MajorNotFound(major_name) ==
  [ gaps |-> <<>>,
    readiness |-> "unknown",
    recommendations |->
      << [ text |-> "Could not find requirement data for", major |-> major_name ],
         [ text |-> "Please verify the major name or try a different major" ] >> ]

\* analyze_grades(student_grades, major_name), with llm the outcome of its
\* LLM request; it returns a dict and never raises
AnalyzeGrades(majors, student_grades, major_name, llm) ==
  LET clean_grades == CleanGrades(student_grades)
      normalized == NormalizeGradeDict(clean_grades)
      transcript_analysis == AnalyzeTranscript(normalized)
      analysis == transcript_analysis.value
      compared == CompareGradesToRequirements(majors, normalized, major_name)
      gap_list == GapList(compared.value.gaps)
      result == [ success |-> TRUE,
                  analysis |-> [ gpa |-> analysis.gpa,
                                 overall_quality |-> analysis.overall_quality,
                                 strengths |-> analysis.strengths,
                                 weaknesses |-> analysis.weaknesses,
                                 passing_all |-> analysis.passing_all ] ]
  IN IF clean_grades = <<>>
     THEN [success |-> FALSE, error |-> "No valid grades found in transcript"]
     ELSE IF transcript_analysis.kind = "raise"
     THEN [success |-> FALSE, error |-> "Failed to analyze grades", cause |-> transcript_analysis.text]
     ELSE IF major_name = <<>>
     THEN result @@ [ recommendations |->
                        [ i \in 1..Len(FirstOf(analysis.weaknesses, 2)) |->
                            [ text |-> "Consider strengthening",
                              subject |-> analysis.weaknesses[i] ] ] ]
     ELSE IF compared.kind = "raise"
     THEN result @@ MajorNotFound(major_name)
     ELSE result @@ [ gaps |-> gap_list,
                      readiness |-> compared.value.readiness,
                      major |-> major_name ]
                 @@ GapRecommendations(gap_list, major_name, llm)

GradeArgs ==
  { NoneArg, FloatArg(100), FloatArg(150), FloatArg(250), StrArg(<<"1","5">>),
    StrArg(<<"a","b","c">>) }

GradeSubjects ==
  { <<"M","a","t","h">>, <<"M","a","t","e","m","á","t","i","c","a"," ","A">>, <<"p","h","y","s","i","c","s">> }

\* the student_grades dicts the LLM may pass
GradeDicts ==
  UNION { { g \in [1..n -> [subject : GradeSubjects, grade : GradeArgs]] :
              \A i, j \in 1..n : i # j => g[i].subject # g[j].subject } :
          n \in 0..MaxGradeEntries }

ToolCalls ==
  { [fn |-> "analyze_grades", student_grades |-> g, major_name |-> m] :
      g \in GradeDicts, m \in MajorNames }

CallAnalyzeGrades ==
  /\ call.fn = "analyze_grades"
  /\ ret = Pending
  /\ \E llm \in GapAnalysisReplies :
       ret' = Return(AnalyzeGrades(Majors, call.student_grades, call.major_name, llm))
  /\ UNCHANGED << turn, pc, call, settings >>

ToolInit ==
  /\ NoTurn
  /\ MajorsLoaded
  /\ pc = "direct"
  /\ call \in ToolCalls
  /\ ret = Pending

ToolNext ==
  CallAnalyzeGrades

ToolSpec ==
  ToolInit /\ [][ToolNext]_vars

----------------------------------------------------------------------------
(* Properties                                                              *)

\* the message contains a crisis phrase, ignoring case, found by comparing
\* every slice of the message with every phrase
HasCrisisPhrase(message) ==
  \E k \in 1..Len(CRISIS_KEYWORDS) :
    \E i \in 1..Len(message) :
      /\ i + Len(CRISIS_KEYWORDS[k]) - 1 <= Len(message)
      /\ \A j \in 1..Len(CRISIS_KEYWORDS[k]) :
           LowerChar(message[i + j - 1]) = CRISIS_KEYWORDS[k][j]

\* run (called directly or through run_agent_loop) has returned
RunReturned ==
  /\ run_calls > 0
  /\ pc \in {"r_return", "done"}

\* process_message has returned a ChatResponse
ProcessMessageReturned ==
  /\ entry = "process_message"
  /\ pc = "done"

TotalLLMRequests ==
  llm_requests.classify + llm_requests.greeting + llm_requests.decide
    + llm_requests.synthesis

\* C1: for a message containing a crisis phrase (any case, anywhere),
\* whatever the history and the files, process_message issues no LLM request,
\* invokes neither the orchestrator nor a tool, and returns the fixed crisis
\* response with success, metadata.intent = crisis_safety and no suggestions.
C1_CrisisShortCircuit ==
  (entry = "process_message" /\ HasCrisisPhrase(user_message)) =>
    /\ pc \in {"pm_init", "done"}
    /\ run_calls = 0
    /\ tool_invocations = 0
    /\ TotalLLMRequests = 0
    /\ pc = "done" =>
         /\ response.returned
         /\ response.message = CRISIS_RESPONSE
         /\ response.success
         /\ response.metadata.intent = "crisis_safety"
         /\ "suggestions" \notin DOMAIN response

\* a mixed-case crisis message with history and files has been answered
C1_Witness ==
  /\ ProcessMessageReturned
  /\ HasCrisisPhrase(user_message)
  /\ user_message # Lower(user_message)
  /\ conversation_history # <<>>
  /\ uploaded_files # <<>>
  /\ response.message = CRISIS_RESPONSE

\* C2: a run whose intent is CRISIS_SAFETY issues no tool-decision request and
\* executes no tool; its tool_calls log stays empty.
C2_CrisisRunPlansNoTools ==
  intent.intent = "crisis_safety" =>
    /\ llm_requests.decide = 0
    /\ tool_invocations = 0
    /\ tool_calls = <<>>

\* C3: when requires_clarification gives a question for the classified
\* intent, the run returns COMPLETED with exactly that question, no plan, empty
\* tool logs, and no tool-decision or synthesis request.
C3_ClarificationReturnsDirectly ==
  (intent # NoIntent /\ RequiresClarification(intent) # None) =>
    /\ pc \in {"r_clarify", "r_return", "done"}
    /\ plan = None
    /\ tool_calls = <<>>
    /\ tool_results = <<>>
    /\ llm_requests.decide = 0
    /\ llm_requests.synthesis = 0
    /\ pc # "r_clarify" =>
         /\ status = "completed"
         /\ final_response = RequiresClarification(intent)

\* a run has returned the transcript-upload question
C3_Witness ==
  /\ RunReturned
  /\ intent # NoIntent
  /\ RequiresClarification(intent) = UploadTranscriptQuestion
  /\ final_response = UploadTranscriptQuestion

\* C4: a run returns only in COMPLETED or ERROR; it is ERROR, with
\* error_message the exception text and final_response the fixed apology,
\* exactly when an exception was raised inside it, and otherwise COMPLETED
\* with error_message unset.
C4_RunReturnsCompletedOrError ==
  RunReturned =>
    IF raised # None
      THEN /\ status = "error"
           /\ error_message = raised
           /\ final_response = Apology
      ELSE /\ status = "completed"
           /\ error_message = None

\* a run has returned ERROR after its synthesis request raised
C4_Witness ==
  /\ RunReturned
  /\ status = "error"
  /\ raised \in LLMExceptionTexts
  /\ llm_requests.synthesis = 1

\* C5: the number of logged tool calls never exceeds max_tool_calls.
C5_ToolCallsWithinLimit ==
  Len(tool_calls) <= max_tool_calls

\* number of recorded results with the given kind of error
ErrorCount(kind) ==
  Cardinality({ i \in 1..Len(tool_results) : tool_results[i].error.kind = kind })

\* C6: a call naming an absent tool, or whose callable raises, is recorded as
\* a failed ToolResult carrying the error; an absent name invokes no callable;
\* the rest of the round is still executed; and no run is in ERROR because
\* of a tool.
C6_ToolFailureIsData ==
  /\ \A i \in 1..Len(tool_results) :
       LET r == tool_results[i]
       IN /\ r.tool_name \notin ToolRegistryNames =>
               ~r.success /\ r.error = ToolNotFoundError(r.tool_name)
          /\ r.success <=> r.error = NoError
          /\ r.error.kind = "exception" => r.error.text \in ToolExceptionTexts
  /\ ErrorCount("exception") = tool_raises
  /\ tool_invocations =
       Cardinality({ i \in 1..Len(tool_results) :
                       tool_results[i].tool_name \in ToolRegistryNames })
  /\ pc # "r_execute" => Len(tool_results) = Len(requested)
  /\ Len(tool_results) + Len(pending) = Len(requested)
  /\ raised \notin ToolExceptionTexts
  /\ status = "error" => error_message \notin ToolExceptionTexts

\* a run completed although one call named an absent tool and another
\* callable raised, and a call after the failure was still executed
C6_Witness ==
  /\ RunReturned
  /\ status = "completed"
  /\ ErrorCount("not_found") > 0
  /\ ErrorCount("exception") > 0
  /\ \E i \in 1..Len(tool_results) :
       /\ ~tool_results[i].success
       /\ i < Len(tool_results)
       /\ tool_results[i + 1].success

\* the turn is over
TurnOver ==
  \/ pc = "done"
  \/ entry = "run" /\ pc = "r_return"

\* C7: every run terminates; it issues at most max_iterations tool-decision
\* requests, none when the log already holds max_tool_calls entries at the
\* start of the round, leaves the loop for synthesis at the first round with
\* zero tool calls, and a run that leaves the loop has issued exactly one
\* synthesis request when it returns COMPLETED.
C7_RunTerminates ==
  /\ [](/\ llm_requests.decide <= max_iterations
        /\ llm_requests.decide <= iteration
        /\ iteration <= max_iterations
        /\ pc = "r_decide_llm" => Len(tool_calls) < max_tool_calls
        /\ llm_requests.synthesis <= 1
        /\ pc = "r_synthesis_llm" => llm_requests.synthesis = 0
        /\ (RunReturned /\ status = "completed" /\ plan # None) =>
             llm_requests.synthesis = 1)
  /\ [][(/\ pc = "r_decide_llm"
         /\ llm_requests'.decide = llm_requests.decide + 1
         /\ requested' = requested
         /\ raised' = raised) =>
          (pc' = "r_synthesis_llm" /\ status' = "synthesizing")]_vars
  /\ <>TurnOver

\* a run that used all its rounds, ended them on the iteration limit and
\* returned after one synthesis
C7_Witness ==
  /\ RunReturned
  /\ status = "completed"
  /\ llm_requests.decide = max_iterations
  /\ llm_requests.decide > 1
  /\ llm_requests.synthesis = 1
  /\ Len(tool_calls) > 0

\* the tool names of a log
ToolNames(log, field) ==
  [i \in 1..Len(log) |-> log[i][field]]

\* s is t or t with one entry appended
SameOrAppended(s, t) ==
  \/ s = t
  \/ Len(s) = Len(t) + 1 /\ SubSeq(s, 1, Len(t)) = t

\* C8: tool_calls and tool_results grow together, one entry per execution, in
\* the order the LLM returned the calls round after round: at every point the
\* two logs have the same length and name the same tools entry by entry, the
\* logged names followed by the calls still pending equal everything the LLM
\* requested, and an entry once logged stays.
C8_LogsInRequestOrder ==
  /\ [](/\ Len(tool_calls) = Len(tool_results)
        /\ \A i \in 1..Len(tool_calls) :
             /\ tool_calls[i].tool = tool_results[i].tool_name
             /\ tool_calls[i].success = tool_results[i].success
        /\ ToolNames(tool_calls, "tool") \o pending = requested
        /\ ToolNames(tool_results, "tool_name") \o pending = requested)
  /\ [][/\ SameOrAppended(tool_calls', tool_calls)
        /\ SameOrAppended(tool_results', tool_results)
        /\ Len(tool_calls') - Len(tool_calls)
             = Len(tool_results') - Len(tool_results)]_vars

\* two rounds were executed and the log holds two different tools
C8_Witness ==
  /\ RunReturned
  /\ iteration >= 2
  /\ Len(tool_calls) >= 3
  /\ tool_calls[1].tool # tool_calls[2].tool

\* C9: when process_message got an AgentState back from the orchestrator:
\* success with the final_response as message iff the status is COMPLETED and
\* final_response is non-empty; on ERROR failure with the orchestrator's
\* fallback text and the error in metadata.error; otherwise failure with the
\* generic trouble-processing message.
C9_OutcomeMapping ==
  (ProcessMessageReturned /\ run_calls > 0) =>
    /\ response.success <=>
         (status = "completed" /\ final_response \notin {None, ""})
    /\ response.success => response.message = final_response
    /\ status = "error" =>
         /\ response.message = final_response
         /\ "error" \in DOMAIN response.metadata
         /\ response.metadata.error = error_message
    /\ (status # "error" /\ ~response.success) =>
         response.message = TroubleMessage

\* a COMPLETED run with an empty final_response was answered with the
\* trouble-processing message
C9_Witness ==
  /\ ProcessMessageReturned
  /\ run_calls > 0
  /\ status = "completed"
  /\ final_response = ""
  /\ ~response.success
  /\ response.message = TroubleMessage

\* texts an exception can carry
ExceptionTexts ==
  LLMExceptionTexts \cup ToolExceptionTexts \cup {"'role'", "'content'"}

\* C10: whatever the text of the exception raised during orchestration, the
\* ChatResponse carries the same fixed message; the text is found only in
\* metadata.error.
C10_ExceptionTextNotShown ==
  /\ final_response \notin ExceptionTexts
  /\ response.returned =>
       /\ response.message \notin ExceptionTexts
       /\ raised # None =>
            /\ response.message = Apology
            /\ response.metadata.error = raised

\* a turn whose tool-decision request raised has been answered
C10_Witness ==
  /\ ProcessMessageReturned
  /\ raised \in LLMExceptionTexts
  /\ llm_requests.decide > 0
  /\ llm_requests.synthesis = 0
  /\ response.message = Apology
  /\ response.metadata.error = raised

\* requires_clarification was called directly and has returned
ClarificationAnswered ==
  /\ call.fn = "requires_clarification"
  /\ ret.kind = "return"

\* the IntentResult's context holds no major: no entry, null or empty text
NoMajorExtracted(intent_result) ==
  \/ "major" \notin DOMAIN intent_result.context
  \/ intent_result.context.major \in { None, "" }

\* the IntentResult's context records no file uploaded in this turn
NoFileUploaded(intent_result) ==
  \/ "has_transcript" \notin DOMAIN intent_result.context
  \/ ~intent_result.context.has_transcript

\* C11: requires_clarification returns the rephrase question exactly when
\* the confidence is below 0.5; otherwise the which-major question exactly
\* when the intent is gap_analysis and no major was extracted; otherwise the
\* upload-transcript question exactly when requires_transcript is set and
\* the context records no uploaded file; and null exactly when none of the
\* three conditions holds.
C11_ClarificationPriority ==
  ClarificationAnswered =>
    LET ir == call.intent_result
        low == ir.confidence < 5
        no_major == ir.intent = "gap_analysis" /\ NoMajorExtracted(ir)
        no_file == ir.requires_transcript /\ NoFileUploaded(ir)
    IN /\ (ret.value = RephraseQuestion) <=> low
       /\ (ret.value = WhichMajorQuestion) <=> (~low /\ no_major)
       /\ (ret.value = UploadTranscriptQuestion) <=>
            (~low /\ ~no_major /\ no_file)
       /\ (ret.value = None) <=> (~low /\ ~no_major /\ ~no_file)

\* a low-confidence gap_analysis without major or file got the rephrase
\* question: the case where all three conditions compete
C11_Witness ==
  /\ ClarificationAnswered
  /\ call.intent_result.confidence < 5
  /\ call.intent_result.intent = "gap_analysis"
  /\ NoMajorExtracted(call.intent_result)
  /\ call.intent_result.requires_transcript
  /\ NoFileUploaded(call.intent_result)
  /\ ret.value = RephraseQuestion

\* classify_intent was called directly with a message that holds no crisis
\* phrase, and has returned
ClassifyAnswered ==
  /\ call.fn = "classify_intent"
  /\ ret.kind = "return"
  /\ ~HasCrisisPhrase(call.user_message)

Mentions(message, phrases) ==
  \E k \in 1..Len(phrases) :
    \E i \in 1..(Len(message) - Len(phrases[k]) + 1) :
      \A j \in 1..Len(phrases[k]) :
        LowerChar(message[i + j - 1]) = phrases[k][j]

\* the keyword classification as the rules are stated, for a message and the
\* files of the turn; a transcript is present when a file is uploaded or the
\* message refers to one
RuleIntent(message, files) ==
  LET transcript_present ==
        files # <<>> \/ Mentions(message, TranscriptKeywords)
  IN IF Mentions(message, GreetingKeywords) THEN "greeting_or_chitchat"
     ELSE IF Mentions(message, MajorKeywords) THEN "major_discovery"
     ELSE IF Mentions(message, ReadinessKeywords) /\ transcript_present
       THEN "gap_analysis"
     ELSE IF transcript_present THEN "transcript_analysis"
     ELSE IF Mentions(message, StudyKeywords) THEN "resource_request"
     ELSE "general_question"

\* classify_intent was called directly, reached its LLM request, and the
\* request or the interpretation of its result failed
ClassificationFailed ==
  /\ call.fn = "classify_intent"
  /\ ret.kind # "pending"
  /\ ~HasCrisisPhrase(call.user_message)
  /\ HistoryKeyError(call.conversation_history) = None
  /\ call.reply.kind # "result"

ClassifiedByFallback ==
  /\ intent.intent # None
  /\ DOMAIN intent.context = {"has_transcript"}

\* C14: a run for "Am I ready for Computer Science?" without uploaded files
\* whose classification ended in the keyword fallback returns completed, with
\* the upload-transcript question as final_response and no tool call logged.
C14_ReadinessQuestionAsksForTranscript ==
  (RunReturned /\ ClassifiedByFallback) =>
    /\ status = "completed"
    /\ final_response = UploadTranscriptQuestion
    /\ tool_calls = <<>>
    /\ tool_results = <<>>

\* C15: one call of process_message for a message without crisis phrase,
\* in which the orchestrator ran, issues the intent-classification LLM
\* request exactly once, and the intent in the metadata of a successful
\* response is the intent the orchestrator planned with.
C15_OneClassificationPerTurn ==
  (ProcessMessageReturned /\ ~HasCrisisPhrase(user_message) /\ run_calls > 0) =>
    /\ llm_requests.classify = 1
    /\ response.success => response.metadata.intent = intent.intent

\* analyze_transcript was called directly and has finished
AnalyzeAnswered ==
  /\ call.fn = "analyze_transcript"
  /\ ret.kind # "pending"

\* C16: analyze_transcript raises ValueError, and returns no analysis, when
\* the grade mapping is empty, when every entry is null, or when some
\* non-null grade lies outside [0,20]; in every other case it returns an
\* analysis of exactly the non-null entries, in their order.
C16_InvalidGradesRejected ==
  AnalyzeAnswered =>
    LET given == call.grades
        retained == { i \in 1..Len(given) : given[i].grade # NullGrade }
        invalid ==
          \/ given = <<>>
          \/ retained = {}
          \/ \E i \in retained : given[i].grade < 0 \/ given[i].grade > 200
    IN /\ invalid => (ret.kind = "raise" /\ ret.error = "ValueError")
       /\ ~invalid =>
            /\ ret.kind = "return"
            /\ Len(ret.value.grades) = Cardinality(retained)
            /\ \A i \in retained :
                 \E k \in 1..Len(ret.value.grades) :
                   /\ ret.value.grades[k] = given[i]
                   /\ k = Cardinality({ j \in retained : j <= i })

\* a mapping with a null entry and a grade above 20 was rejected
C16_Witness ==
  /\ AnalyzeAnswered
  /\ \E i \in 1..Len(call.grades) : call.grades[i].grade = NullGrade
  /\ \E i \in 1..Len(call.grades) : call.grades[i].grade > 200
  /\ ret.kind = "raise"
  /\ ret.error = "ValueError"

\* compare_grades_to_requirements was called directly and has finished
CompareFinished ==
  /\ call.fn = "compare_grades_to_requirements"
  /\ ret.kind # "pending"

\* compare_grades_to_requirements was called directly and has returned
CompareReturned ==
  /\ CompareFinished
  /\ ret.kind = "return"

\* C17: every GradeGap returned has gap = required_grade - student_grade;
\* severity meets iff gap <= 0, close iff 0 < gap <= 2, significant iff
\* gap > 2; priority 1 iff gap > 4, 2 iff 2 < gap <= 4, 3 iff 0 < gap <= 2,
\* 4 iff gap <= 0; of two GradeGaps the one with the larger gap never has the
\* larger priority number; and priority 3 goes with close, 1 and 2 with
\* significant, 4 with meets.
C17_SeverityAndPriorityBands ==
  CompareReturned =>
    LET gaps == ret.value.gaps
    IN /\ \A i \in 1..Len(gaps) :
            LET g == gaps[i]
            IN /\ g.gap = g.required_grade - g.student_grade
               /\ (g.severity = "meets") <=> (g.gap <= 0)
               /\ (g.severity = "close") <=> (0 < g.gap /\ g.gap <= 20)
               /\ (g.severity = "significant") <=> (g.gap > 20)
               /\ (g.priority = 1) <=> (g.gap > 40)
               /\ (g.priority = 2) <=> (20 < g.gap /\ g.gap <= 40)
               /\ (g.priority = 3) <=> (0 < g.gap /\ g.gap <= 20)
               /\ (g.priority = 4) <=> (g.gap <= 0)
               /\ (g.priority = 3) <=> (g.severity = "close")
               /\ (g.priority \in {1, 2}) <=> (g.severity = "significant")
               /\ (g.priority = 4) <=> (g.severity = "meets")
       /\ \A i, j \in 1..Len(gaps) :
            gaps[i].gap <= gaps[j].gap => gaps[i].priority >= gaps[j].priority

\* one comparison returned a gap of exactly 2 points, close with priority 3,
\* next to a gap of exactly 4 points, significant with priority 2
C17_Witness ==
  /\ CompareReturned
  /\ \E i, j \in 1..Len(ret.value.gaps) :
       /\ ret.value.gaps[i].gap = 20
       /\ ret.value.gaps[i].severity = "close"
       /\ ret.value.gaps[i].priority = 3
       /\ ret.value.gaps[j].gap = 40
       /\ ret.value.gaps[j].severity = "significant"
       /\ ret.value.gaps[j].priority = 2

\* the text occurs in the other text, ignoring the case of both, found by
\* comparing every slice character by character
OccursIgnoringCase(part, whole) ==
  \E i \in 1..(Len(whole) - Len(part) + 1) :
    \A j \in 1..Len(part) : LowerChar(whole[i + j - 1]) = LowerChar(part[j])

\* the major's name or localized name holds the asked name
NameFits(asked, major) ==
  \/ OccursIgnoringCase(asked, major.name)
  \/ /\ "name_pt" \in DOMAIN major
     /\ OccursIgnoringCase(asked, major.name_pt)

\* indices of the dataset's majors whose name fits the asked name
FittingMajors ==
  { i \in 1..Len(Majors) : NameFits(call.major_name, Majors[i]) }

\* the student's grades hold an entry for the required subject: same subject
\* after lower-casing and mapping localized names to canonical ones
HasEntryFor(student_grades, subject) ==
  \E i \in 1..Len(student_grades) :
    NormalizeSubjectName(Lower(student_grades[i].subject))
      = NormalizeSubjectName(Lower(subject))

\* C18: a comparison that returns has one GradeGap per requirement of the
\* resolved major, in the order of the requirements, and a requirement whose
\* subject has no entry in the student's grades is compared with the
\* passing grade 10.
C18_OneGapPerRequirement ==
  CompareReturned =>
    LET gaps == ret.value.gaps
        major == Majors[CHOOSE i \in FittingMajors :
                          \A j \in FittingMajors : i <= j]
        requirements == major.requirements
    IN /\ Len(gaps) = Len(requirements)
       /\ \A k \in 1..Len(requirements) :
            /\ gaps[k].subject = requirements[k].subject
            /\ gaps[k].required_grade = requirements[k].required_grade
            /\ ~HasEntryFor(call.student_grades, requirements[k].subject) =>
                 /\ gaps[k].student_grade = 100
                 /\ gaps[k].gap = requirements[k].required_grade - 100

\* a requirement of 16 without a grade: student_grade 10, gap 6, significant,
\* priority 1
C18_Witness ==
  /\ CompareReturned
  /\ \E k \in 1..Len(ret.value.gaps) :
       /\ ~HasEntryFor(call.student_grades, ret.value.gaps[k].subject)
       /\ ret.value.gaps[k].required_grade = 160
       /\ ret.value.gaps[k].student_grade = 100
       /\ ret.value.gaps[k].gap = 60
       /\ ret.value.gaps[k].severity = "significant"
       /\ ret.value.gaps[k].priority = 1

\* C19: the readiness label is ready iff no requirement has gap > 0;
\* mostly_ready iff some requirement has gap > 0 and every such gap is at
\* most 2; significant_gaps iff at least two requirements have gap > 2;
\* needs_improvement iff exactly one requirement has gap > 2; and it is one
\* of these four labels.
C19_ReadinessLabel ==
  CompareReturned =>
    LET gaps == ret.value.gaps
        positive == { i \in 1..Len(gaps) : gaps[i].gap > 0 }
        big == { i \in 1..Len(gaps) : gaps[i].gap > 20 }
        label == ret.value.readiness
    IN /\ label \in { "ready", "mostly_ready", "significant_gaps",
                      "needs_improvement" }
       /\ (label = "ready") <=> (positive = {})
       /\ (label = "mostly_ready") <=> (positive # {} /\ big = {})
       /\ (label = "significant_gaps") <=> (Cardinality(big) >= 2)
       /\ (label = "needs_improvement") <=> (Cardinality(big) = 1)

\* one gap above 2 points next to a gap of at most 2: needs_improvement
C19_Witness ==
  /\ CompareReturned
  /\ Cardinality({ i \in 1..Len(ret.value.gaps) :
                     ret.value.gaps[i].gap > 20 }) = 1
  /\ \E i \in 1..Len(ret.value.gaps) :
       ret.value.gaps[i].gap > 0 /\ ret.value.gaps[i].gap <= 20
  /\ ret.value.readiness = "needs_improvement"

\* the asked name is the name of a major of the dataset, in any case
IsMajorName ==
  \E i \in 1..Len(Majors) :
    \/ /\ Len(Majors[i].name) = Len(call.major_name)
       /\ OccursIgnoringCase(call.major_name, Majors[i].name)
    \/ /\ "name_pt" \in DOMAIN Majors[i]
       /\ Len(Majors[i].name_pt) = Len(call.major_name)
       /\ OccursIgnoringCase(call.major_name, Majors[i].name_pt)

\* C20 as stated: compare_grades_to_requirements raises ValueError whenever
\* the asked name is not the name of a major of the dataset, and whenever the
\* resolved major has no requirement entries.
C20_UnknownNameRejected ==
  CompareFinished =>
    /\ ~IsMajorName => (ret.kind = "raise" /\ ret.error = "ValueError")
    /\ ( /\ FittingMajors # {}
         /\ Majors[CHOOSE i \in FittingMajors :
                     \A j \in FittingMajors : i <= j].requirements = <<>> )
         => (ret.kind = "raise" /\ ret.error = "ValueError")

\* C20: compare_grades_to_requirements raises ValueError, and returns
\* nothing, exactly when no major's name or localized name holds the asked
\* name ignoring case, or the first major of the dataset whose name does has
\* no requirement entries.
C20_UnresolvedNameRejected ==
  CompareFinished =>
    LET unresolved == FittingMajors = {}
        empty ==
          /\ FittingMajors # {}
          /\ Majors[CHOOSE i \in FittingMajors :
                      \A j \in FittingMajors : i <= j].requirements = <<>>
    IN (unresolved \/ empty) <=> (ret.kind = "raise" /\ ret.error = "ValueError")

\* the major asked for has a name that fits, and no requirement: rejected
C20_Witness ==
  /\ CompareFinished
  /\ FittingMajors # {}
  /\ \A i \in FittingMajors : Majors[i].requirements = <<>>
  /\ ret.kind = "raise"
  /\ ret.error = "ValueError"

\* indices of the dataset's majors whose name is the asked name, in any case
ExactMajors ==
  { i \in 1..Len(Majors) :
      /\ Len(Majors[i].name) = Len(call.major_name)
      /\ OccursIgnoringCase(call.major_name, Majors[i].name) }

\* C21: when some major's name equals the asked name ignoring case,
\* compare_grades_to_requirements works on that major, wherever it stands in
\* the dataset: it returns one GradeGap for each of that major's
\* requirements, or raises when that major has none.
C21_ExactNameResolvedFirst ==
  (CompareFinished /\ ExactMajors # {}) =>
    LET major == Majors[CHOOSE i \in ExactMajors : \A j \in ExactMajors : i <= j]
        requirements == major.requirements
    IN IF requirements = <<>>
         THEN ret.kind = "raise"
         ELSE /\ ret.kind = "return"
              /\ Len(ret.value.gaps) = Len(requirements)
              /\ \A k \in 1..Len(requirements) :
                   /\ ret.value.gaps[k].subject = requirements[k].subject
                   /\ ret.value.gaps[k].required_grade
                        = requirements[k].required_grade

\* find_matching_grade was called directly and has finished
FindFinished ==
  /\ call.fn = "find_matching_grade"
  /\ ret.kind # "pending"

\* C22: find_matching_grade returns, never raises: the grade of the first
\* entry whose lower-cased, normalized subject equals the lower-cased,
\* normalized target; without such an entry the grade stored under the exact
\* target key; and null otherwise.
C22_FirstNormalizedMatch ==
  FindFinished =>
    LET grades == call.grades
        target == NormalizeSubjectName(Lower(call.target_subject))
        matching == { i \in 1..Len(grades) :
                        NormalizeSubjectName(Lower(grades[i].subject)) = target }
        stored == { i \in 1..Len(grades) :
                      grades[i].subject = call.target_subject }
    IN /\ ret.kind = "return"
       /\ matching # {} =>
            \E i \in matching :
              /\ \A j \in matching : i <= j
              /\ ret.value = grades[i].grade
       /\ (matching = {} /\ stored # {}) =>
            \E i \in stored : ret.value = grades[i].grade
       /\ (matching = {} /\ stored = {}) => ret.value = NullGrade
       /\ grades = <<>> => ret.value = NullGrade

\* {"Matemática A": 16} asked for "Math" gave 16
C22_Witness ==
  /\ FindFinished
  /\ Len(call.grades) = 1
  /\ call.grades[1].subject # call.target_subject
  /\ Lower(call.grades[1].subject)
       = <<"m","a","t","e","m","á","t","i","c","a"," ","a">>
  /\ call.grades[1].grade = 160
  /\ call.target_subject = <<"M","a","t","h">>
  /\ ret.kind = "return"
  /\ ret.value = 160

\* a call of match_interests_to_majors, by either entry point, has finished
MatchFinished ==
  /\ call.fn \in {"MajorService.match_interests_to_majors", "match_interests_to_majors"}
  /\ ret # Pending

\* the scores of the majors of the dataset, in dataset order, for the
\* arguments of the call
Scores ==
  [ i \in 1..Len(Majors) |->
      MajorScore(Majors[i], call.interests, call.favorite_subjects, call.career_goals) ]

Qualifying(scores) ==
  { i \in 1..Len(Majors) : scores[i] > 0 }

\* major i comes before major j: a higher score, or the same score and an
\* earlier place in the dataset
ComesBefore(scores, i, j) ==
  \/ scores[i] > scores[j]
  \/ scores[i] = scores[j] /\ i < j

\* the qualifying majors, best first
Ranking(scores) ==
  [ p \in 1..Cardinality(Qualifying(scores)) |->
      CHOOSE i \in Qualifying(scores) :
        Cardinality({ j \in Qualifying(scores) : ComesBefore(scores, j, i) }) = p - 1 ]

\* the returned list is the first n entries of the ranking
ReturnsBest(n) ==
  LET scores == Scores
      ranking == Ranking(scores)
  IN /\ ret.kind = "return"
     /\ Len(ret.value) = (IF n < Len(ranking) THEN n ELSE Len(ranking))
     /\ \A p \in 1..Len(ret.value) :
          /\ ret.value[p].major = Majors[ranking[p]].id
          /\ ret.value[p].score = scores[ranking[p]]

\* C23: for a positive top_n, match_interests_to_majors returns exactly the
\* majors whose score is above zero, ordered by score descending with ties in
\* dataset order, truncated to the first top_n; no returned entry has score
\* zero, and without interests, favourite subjects and career goal the result
\* is the empty list.
C23_BestMatchesInOrder ==
  (MatchFinished /\ call.top_n.type = "int" /\ call.top_n.int > 0) =>
    /\ ReturnsBest(call.top_n.int)
    /\ \A p \in 1..Len(ret.value) : ret.value[p].score > 0
    /\ (call.interests = <<>> /\ call.favorite_subjects = <<>>
        /\ call.career_goals = <<>>) => ret.value = <<>>

\* the interest "design" scores Fine Arts and Engineering alike and Computer
\* Engineering lower; top_n = 2 keeps the tie in dataset order and cuts the
\* third
C23_Witness ==
  /\ MatchFinished
  /\ call.top_n = IntArg(2)
  /\ Cardinality(Qualifying(Scores)) = 3
  /\ ret.kind = "return"
  /\ Len(ret.value) = 2
  /\ ret.value[1].major = "fine_arts"
  /\ ret.value[2].major = "engineering"
  /\ ret.value[1].score = ret.value[2].score

\* C24: match_interests_to_majors coerces top_n to a positive integer, using
\* 5 when top_n is falsy or cannot be parsed as an integer; for every top_n
\* it returns, without raising, at most that many best matches.
C24_TopNCoerced ==
  MatchFinished =>
    LET n == CASE call.top_n.type = "int" /\ call.top_n.int > 0 -> {call.top_n.int}
               [] call.top_n = StrArg(<<"2">>) -> {2}
               [] call.top_n \in {NoneArg, IntArg(0), StrArg(<<"m","a","n","y">>)} ->
                    {DefaultTopN}
               [] OTHER -> 1..Len(Majors)
    IN \E k \in n : ReturnsBest(k)

\* the document is a non-empty list of records that each have id, name,
\* description and requirements
PassesValidation(document) ==
  /\ document.type = "list"
  /\ document.items # <<>>
  /\ \A i \in 1..Len(document.items) :
       \A field \in {"id", "name", "description", "requirements"} :
         field \in DOMAIN document.items[i]

\* C25: every dataset load_majors returns has passed validation, so that
\* data a failed load rejected is never returned by a later call, with or
\* without force_reload.
C25_ReturnedDataPassedValidation ==
  (call.fn = "load_majors" /\ ret.kind = "return") => PassesValidation(ret.value)

\* a successful tool result mentions a gap or an improvement, in any case
HasGapText ==
  \E i \in 1..Len(tool_results) :
    /\ tool_results[i].success
    /\ \/ OccursIgnoringCase(<<"g","a","p">>, tool_results[i].result)
       \/ OccursIgnoringCase(<<"i","m","p","r","o","v","e">>, tool_results[i].result)

ImproveSuggestions ==
  << "Show me resources to improve my weak subjects",
     "What's a realistic timeline to close these gaps?",
     "Are there alternative majors that fit my current grades?" >>

ReadySuggestions ==
  << "What universities offer this major?",
     "What should I focus on to maintain my readiness?",
     "Tell me about career prospects in this field" >>

\* process_message answered a completed turn
CompletedTurnAnswered ==
  /\ ProcessMessageReturned
  /\ status = "completed"
  /\ response.success

AnalyzeGradesFinished ==
  /\ call.fn = "analyze_grades"
  /\ ret # Pending

\* the grade is a number from 0 to 20, or the text of one
IsValidGradeArg(grade) ==
  \/ grade.type = "float" /\ grade.float >= 0 /\ grade.float <= 200
  \/ grade = StrArg(<<"1","5">>)

\* the grade is None or text that is not a number, which the tool skips
IsSkippedGradeArg(grade) ==
  \/ grade.type = "NoneType"
  \/ grade = StrArg(<<"a","b","c">>)

\* a major name is given, and no major's name holds it or the first one that
\* does has no requirements
MajorUnresolved ==
  /\ call.major_name # <<>>
  /\ \/ FittingMajors = {}
     \/ Majors[CHOOSE i \in FittingMajors : \A j \in FittingMajors : i <= j]
          .requirements = <<>>

\* success with the basic analysis, no gaps, readiness "unknown" and the
\* recommendation that the requirement data could not be found
ReportsUnknownReadiness ==
  /\ ret.kind = "return"
  /\ ret.value.success
  /\ "analysis" \in DOMAIN ret.value
  /\ ret.value.gaps = <<>>
  /\ ret.value.readiness = "unknown"
  /\ ret.value.recommendations[1].text = "Could not find requirement data for"
  /\ ret.value.recommendations[1].major = call.major_name

GreetingRunReturned ==
  /\ RunReturned
  /\ intent # NoIntent
  /\ intent.intent = "greeting_or_chitchat"
  /\ RequiresClarification(intent) = None

\* C29: a run classified GREETING_OR_CHITCHAT that needs no clarification
\* makes exactly one direct LLM completion, issues no tool-decision request,
\* executes no tool and creates no plan; when the completion is given the run
\* ends COMPLETED with it as final_response (when the request fails the run
\* ends in ERROR).
C29_GreetingWithoutTools ==
  GreetingRunReturned =>
    /\ llm_requests.greeting = 1
    /\ llm_requests.decide = 0
    /\ llm_requests.synthesis = 0
    /\ tool_invocations = 0
    /\ tool_calls = <<>>
    /\ tool_results = <<>>
    /\ plan = None
    /\ status \in {"completed", "error"}
    /\ status = "completed" <=> raised = None
    /\ status = "completed" => final_response \in LLMTexts /\ error_message = None

\* "Hello there" answered by the greeting completion
C29_Witness ==
  /\ GreetingRunReturned
  /\ status = "completed"
  /\ llm_requests.greeting = 1
  /\ final_response = "Here is what I found for you."

\* the sum of the first n grades of the call
RECURSIVE GradeTotal(_)
GradeTotal(n) ==
  IF n = 0 THEN 0 ELSE call.grades[n].grade + GradeTotal(n - 1)

\* analyze_transcript was called with a non-empty mapping whose values all
\* lie in [0, 20]
AnalyzedGradesInRange ==
  /\ AnalyzeAnswered
  /\ call.grades # <<>>
  /\ \A i \in 1..Len(call.grades) :
       call.grades[i].grade >= 0 /\ call.grades[i].grade <= 200

\* C30: for a non-empty grade mapping with all values in [0,20],
\* analyze_transcript returns the arithmetic mean as gpa, passing_all true iff
\* every grade is at least 10, and overall_quality "excellent" iff gpa >= 17,
\* "good" iff 15 <= gpa < 17, "adequate" iff 12 <= gpa < 15 and
\* "needs_improvement" iff gpa < 12.
C30_MeanAndQuality ==
  AnalyzedGradesInRange =>
    /\ ret.kind = "return"
    /\ LET count == Len(call.grades)
           total == GradeTotal(count)
           quality == ret.value.overall_quality
       IN /\ ret.value.gpa = [total |-> total, count |-> count]
          /\ ret.value.passing_all <=>
               \A i \in 1..count : call.grades[i].grade >= 100
          /\ quality = "excellent" <=> total >= 170 * count
          /\ quality = "good" <=> (150 * count <= total /\ total < 170 * count)
          /\ quality = "adequate" <=> (120 * count <= total /\ total < 150 * count)
          /\ quality = "needs_improvement" <=> total < 120 * count

\* grades 14 and 20 and one failing 9.5: the mean 14.5 is "adequate" and not
\* every subject passes
C30_Witness ==
  /\ AnalyzedGradesInRange
  /\ Len(call.grades) = 3
  /\ GradeTotal(3) = 435
  /\ ret.kind = "return"
  /\ ret.value.overall_quality = "adequate"
  /\ ~ret.value.passing_all


\* identify_grade_gaps was called directly and has returned a report
IdentifyReturned ==
  /\ call.fn = "identify_grade_gaps"
  /\ ret.kind = "return"

\* C31: the gaps of identify_grade_gaps are exactly the requirements with
\* gap > 0, by ascending priority and in requirement order within a priority;
\* the requirements with gap <= 0 are the strengths, in requirement order, with
\* excess = -gap; priority_subjects are the subjects of the first 3 gaps, and
\* total_gaps plus the number of strengths is the number of requirements.
C31_GapsSortedByPriority ==
  IdentifyReturned =>
    LET comparison == CompareGradesToRequirements(Majors, call.student_grades,
                                                  call.major_name).value
        compared == comparison.gaps
        Actual == { i \in 1..Len(compared) : compared[i].gap > 0 }
        Meeting == { i \in 1..Len(compared) : compared[i].gap <= 0 }
        GapPosition(i) ==
          1 + Cardinality({ j \in Actual :
                \/ compared[j].priority < compared[i].priority
                \/ compared[j].priority = compared[i].priority /\ j < i })
        StrengthPosition(i) == 1 + Cardinality({ j \in Meeting : j < i })
        report == ret.value
    IN /\ Len(report.gaps) = Cardinality(Actual)
       /\ \A i \in Actual :
            report.gaps[GapPosition(i)] =
              [ subject |-> compared[i].subject,
                current |-> compared[i].student_grade,
                required |-> compared[i].required_grade,
                gap |-> compared[i].gap,
                severity |-> compared[i].severity ]
       /\ Len(report.strengths) = Cardinality(Meeting)
       /\ \A i \in Meeting :
            report.strengths[StrengthPosition(i)] =
              [ subject |-> compared[i].subject,
                grade |-> compared[i].student_grade,
                required |-> compared[i].required_grade,
                excess |-> 0 - compared[i].gap ]
       /\ Len(report.priority_subjects) =
            (IF Len(report.gaps) < 3 THEN Len(report.gaps) ELSE 3)
       /\ \A k \in 1..Len(report.priority_subjects) :
            report.priority_subjects[k] = report.gaps[k].subject
       /\ report.total_gaps = Len(report.gaps)
       /\ report.total_gaps + Len(report.strengths) = Len(compared)
       /\ report.readiness = comparison.readiness

\* a report with a strength and two gaps, the more urgent gap belonging to the
\* later requirement
C31_Witness ==
  /\ IdentifyReturned
  /\ Len(ret.value.strengths) >= 1
  /\ Len(ret.value.gaps) >= 2
  /\ ret.value.gaps[1].gap > ret.value.gaps[2].gap
  /\ ret.value.gaps[1].subject = <<"P","h","y","s","i","c","s">>
  /\ ret.value.gaps[2].subject = <<"M","a","t","h">>


\* the status changes a run may make
StatusTransitions ==
  { <<"idle", "thinking">>,
    <<"thinking", "calling_tool">>,
    <<"thinking", "synthesizing">>,
    <<"calling_tool", "synthesizing">>,
    <<"synthesizing", "completed">>,
    <<"thinking", "completed">>,
    <<"idle", "error">>,
    <<"thinking", "error">>,
    <<"calling_tool", "error">>,
    <<"synthesizing", "error">> }

\* the while loop of run is over: no call of the round is left, and the
\* iteration limit or the tool-call limit is reached or the LLM asked for no
\* further tool
ToolLoopEnds ==
  /\ pending = <<>>
  /\ \/ iteration >= max_iterations
     \/ Len(tool_calls) >= max_tool_calls
     \/ pc = "r_decide_llm" /\ requested' = requested

\* C32: the status changes only along IDLE -> THINKING -> CALLING_TOOL ->
\* SYNTHESIZING -> COMPLETED, THINKING -> COMPLETED, or to ERROR from a
\* non-terminal status; SYNTHESIZING is entered only when the tool loop ends,
\* no tool is decided on or executed after that, and COMPLETED and ERROR
\* are never left.
C32_StatusTransitions ==
  [][ /\ status' # status =>
           /\ << status, status' >> \in StatusTransitions
           /\ status' = "synthesizing" => ToolLoopEnds
           /\ status = "thinking" /\ status' = "completed" =>
                tool_calls = <<>> /\ plan = None
      /\ status \in {"synthesizing", "completed", "error"} =>
           /\ tool_calls' = tool_calls
           /\ tool_results' = tool_results
           /\ llm_requests'.decide = llm_requests.decide ]_vars

\* a run that went through two rounds of tool calls, synthesized and completed
C32_Witness ==
  /\ status = "completed"
  /\ llm_requests.synthesis = 1
  /\ llm_requests.decide >= 2
  /\ Len(tool_calls) >= 3


\* C33: a registered tool whose invocation failed, the tool layer reporting
\* the error structure, is recorded with success = false, so that had_errors
\* of the execution summary is true.
C33_FailedInvocationRecordedAsFailure ==
  \A i \in 1..Len(tool_results) :
    tool_results[i].result = AnalyzeGradesFailure =>
      /\ ~tool_results[i].success
      /\ ~tool_calls[i].success
      /\ \E j \in 1..Len(tool_results) : ~tool_results[j].success


\* the number a valid grade argument stands for, in tenths
SuppliedGrade(grade) ==
  IF grade.type = "float" THEN grade.float ELSE 150

\* the sum of the valid grades among the first n entries the caller supplied
RECURSIVE SuppliedTotal(_)
SuppliedTotal(n) ==
  IF n = 0 THEN 0
  ELSE SuppliedTotal(n - 1) +
       ( IF IsValidGradeArg(call.student_grades[n].grade)
           THEN SuppliedGrade(call.student_grades[n].grade) ELSE 0 )

\* C34: the gpa analyze_grades reports is the arithmetic mean of the valid
\* grades the caller supplied, one term per supplied subject, localized
\* subject names included; no grade is counted more than once in gpa,
\* strengths or weaknesses.
C34_GpaIsMeanOfSuppliedGrades ==
  ( /\ AnalyzeGradesFinished
    /\ ret.value.success )
  => LET supplied == { i \in 1..Len(call.student_grades) :
                         IsValidGradeArg(call.student_grades[i].grade) }
         analysis == ret.value.analysis
     IN /\ analysis.gpa.count = Cardinality(supplied)
        /\ analysis.gpa.total * Cardinality(supplied) =
             SuppliedTotal(Len(call.student_grades)) * analysis.gpa.count
        /\ Len(analysis.strengths) + Len(analysis.weaknesses)
             <= Cardinality(supplied)


\* C35: process_message returns a ChatResponse for every message and every
\* behaviour of the LLM and the tools: no exception leaves it (every step of
\* the turn before the return has a successor), and the message of the
\* response is not empty.
C35_AlwaysAnswers ==
  entry = "process_message" =>
    /\ pc # "done" => ENABLED Next
    /\ pc = "done" =>
         /\ response.returned
         /\ response.message \notin {None, ""}

\* the LLM's synthesis came back empty after tool calls, one of them failed,
\* and the user is told to rephrase
C35_Witness ==
  /\ entry = "process_message"
  /\ pc = "done"
  /\ status = "completed"
  /\ final_response = ""
  /\ \E i \in 1..Len(tool_results) : ~tool_results[i].success
  /\ response.returned
  /\ response.message = TroubleMessage


\* C36: while one thread is between the assignment of the cache and the end
\* of its validation, a dataset that load_majors() has returned to the other
\* thread has passed validation.
C36_ConcurrentCallerGetsValidatedData ==
  \A t \in Threads :
    ( /\ ret[t].kind = "return"
      /\ \E u \in Threads \ {t} : pc[u] = "validate" )
    => PassesValidation(ret[t].value)


\* the error texts that name a rate limit, a quota, a timeout or one of the
\* codes 429, 500, 503
RetryableTexts ==
  { RateLimitText, QuotaText, UnavailableText }

\* C37: a call wrapped by retry_on_error invokes the function at most
\* max_retries times; every invocation but the last raised a retryable error
\* and was followed by a sleep of delay, 2*delay, 4*delay ...; a result the
\* function returns is returned at once; an error is re-raised when it is not
\* retryable or when it is the error of invocation number max_retries. (With
\* max_retries = 0 the function is never invoked and the wrapper raises.)
C37_RetryOnError ==
  ( call.fn = "retry_on_error" /\ ret # Pending ) =>
    LET attempts == call.attempts
        n == Len(attempts)
    IN /\ n <= call.max_retries
       /\ \A i \in 1..(n - 1) :
            attempts[i].raised /\ attempts[i].text \in RetryableTexts
       /\ call.slept = [ i \in 1..(n - 1) |-> call.delay * 2^(i - 1) ]
       /\ ( n >= 1 /\ ~attempts[n].raised ) => ret = Return(attempts[n].value)
       /\ ( n >= 1 /\ attempts[n].raised ) =>
            /\ ret = Raises("Exception", attempts[n].text)
            /\ attempts[n].text \notin RetryableTexts \/ n = call.max_retries
       /\ n = 0 => call.max_retries = 0 /\ ret.kind = "raise"

\* the default decorator: two retryable errors, sleeps of 1 s and 2 s, and the
\* third invocation returns
C37_Witness ==
  /\ call.fn = "retry_on_error"
  /\ call.max_retries = MAX_RETRIES
  /\ call.delay = RETRY_DELAY
  /\ Len(call.attempts) = 3
  /\ call.attempts[1] = Raised(RateLimitText)
  /\ call.attempts[2] = Raised(UnavailableText)
  /\ call.slept = << 10, 20 >>
  /\ ret = Return(LLMResultOf(3))

\* C38: a tool wrapped by retry_on_failure(max_retries) never raises to its
\* caller; the body is invoked at most max_retries + 1 times; the first
\* invocation that returns ends the retries and its value is returned
\* unchanged, also when it reports success = false; when every invocation
\* raised, the wrapper returns success = false with the text of the last
\* exception and the name of the function.
C38_RetryOnFailure ==
  call.fn = "retry_on_failure" =>
    /\ ret = Pending => ENABLED RetryNext
    /\ ret # Pending =>
         LET attempts == call.attempts
             n == Len(attempts)
         IN /\ ret.kind = "return"
            /\ n >= 1
            /\ n <= call.max_retries + 1
            /\ \A i \in 1..(n - 1) : attempts[i].raised
            /\ ~attempts[n].raised => ret.value = attempts[n].value
            /\ attempts[n].raised =>
                 /\ n = call.max_retries + 1
                 /\ ret.value = [ success |-> FALSE,
                                  error |-> attempts[n].text,
                                  tool |-> call.tool ]

\* get_major_info wrapped with max_retries = 2: three invocations raise, and
\* the error of the third is the one reported
C38_Witness ==
  /\ call.fn = "retry_on_failure"
  /\ call.tool = "get_major_info"
  /\ call.max_retries = 2
  /\ Len(call.attempts) = 3
  /\ call.attempts[1] = Raised("unexpected keyword argument")
  /\ call.attempts[3] = Raised("'NoneType' object has no attribute 'get'")
  /\ ret = Return([ success |-> FALSE,
                    error |-> "'NoneType' object has no attribute 'get'",
                    tool |-> "get_major_info" ])


\* a run returned whose classification ended in the keyword fallback with
\* GAP_ANALYSIS
FallbackGapRunReturned ==
  /\ RunReturned
  /\ ClassifiedByFallback
  /\ intent.intent = "gap_analysis"

\* C39: when the LLM classification fails and the keyword fallback says
\* GAP_ANALYSIS, the run ends COMPLETED with the which-major question as
\* final_response and without any tool call, whatever major the message names
\* and whether or not a transcript was uploaded.
C39_FallbackGapAsksWhichMajor ==
  FallbackGapRunReturned =>
    /\ status = "completed"
    /\ final_response = WhichMajorQuestion
    /\ plan = None
    /\ tool_calls = <<>>
    /\ tool_results = <<>>
    /\ tool_invocations = 0
    /\ llm_requests.decide = 0

\* the message names Computer Science and a transcript was uploaded, and the
\* run still asks which major is meant
C39_Witness ==
  /\ FallbackGapRunReturned
  /\ user_message = QualifyQuestion
  /\ uploaded_files # <<>>
  /\ status = "completed"
  /\ final_response = WhichMajorQuestion


\* the character is a letter
IsLetter(c) ==
  \E k \in 1..Len(LowerChars) : LowerChars[k] = LowerChar(c)

\* one of the phrases occurs in the message, in any case, as a word of its
\* own: no letter stands directly before or after it
MentionsAsWord(message, phrases) ==
  \E k \in 1..Len(phrases) :
    \E i \in 1..(Len(message) - Len(phrases[k]) + 1) :
      /\ \A j \in 1..Len(phrases[k]) :
           LowerChar(message[i + j - 1]) = phrases[k][j]
      /\ i > 1 => ~IsLetter(message[i - 1])
      /\ i + Len(phrases[k]) <= Len(message) =>
           ~IsLetter(message[i + Len(phrases[k])])

\* C40: in the keyword fallback a message with a major-seeking phrase and no
\* greeting word as a word of its own is classified MAJOR_DISCOVERY.
C40_MajorPhraseWithoutGreetingWord ==
  ( /\ ClassificationFailed
    /\ Mentions(call.user_message, MajorKeywords)
    /\ ~MentionsAsWord(call.user_message, GreetingKeywords) )
  => /\ ret.kind = "return"
     /\ ret.value.intent = "major_discovery"

====
